---- MODULE Spec2Model ----
(***************************************************************************)
(* A model of the constraint layout solver of src/src/layout/layout.rs     *)
(* (Layout::split, Layout::split_with_spacers, Layout::try_split and the   *)
(* thread-local LRU layout cache behind Layout::init_cache).               *)
(*                                                                         *)
(* The cassowary Solver is an external crate.  It is modelled by what it   *)
(* computes: every add_constraint leaves the solver at a solution that     *)
(* satisfies the REQUIRED constraints and minimises the sum of             *)
(* strength * violation over the constraints added so far; the solution    *)
(* only moves when the constraint just added makes it sub-optimal (the     *)
(* simplex pivots only on a strictly improving direction), and when it     *)
(* moves it may end at any optimum.  Positions are exact rationals on a    *)
(* grid fine enough to hold the vertices of the constraint system.         *)
(*                                                                         *)
(* The second part models the line composers of src/src/widgets/reflow.rs  *)
(* (WordWrapper and LineTruncator behind LineComposer::next_line).  A      *)
(* grapheme is what the composers read of it: its symbol, its display      *)
(* width and whether it is whitespace.                                     *)
(*                                                                         *)
(* The third part models Block::inner of src/src/widgets/block.rs: the     *)
(* area a Block leaves to its content, given its borders, titles and       *)
(* padding.                                                                *)
(***************************************************************************)
EXTENDS Integers, Sequences, FiniteSets, TLC

\* ------------------------------------------------------------------ bounds
MaxWidth == 2        \* widths and heights of the areas that are split
MaxLen == 2          \* the n of Fixed(n), Length(n), Min(n), Max(n)
MaxSpacing == 1      \* Layout::spacing
MaxMargin == 1       \* Margin::horizontal and Margin::vertical
MaxThreads == 2      \* threads that use Layout
MaxCalls == 4        \* split / split_with_spacers calls of a run, all threads together
MaxCacheSize == 2    \* the cache_size arguments of init_cache
MaxWeight == 2       \* the weight of Proportional(w)
MaxLineWidth == 3    \* the max_line_width of a composer
MaxGraphemes == 4    \* graphemes of an input line
MaxLines == 3        \* input lines of a text
MaxSymbolWidth == 2  \* display columns of one grapheme
MaxOffset == 2       \* the horizontal_offset of a LineTruncator
MaxIdleCalls == 2    \* next_line calls after a composer has run dry
MaxTitles == 1       \* titles at the top and at the bottom of a Block
MaxPadding == 1      \* the Padding of a Block, per side
MaxSpaces == 5       \* the spaces that follow a lone grapheme

\* ------------------------------------------------------- program constants
U16_MAX == 65535
DEFAULT_CACHE_SIZE == 500
REQUIRED == 1001001000
STRONG == 1000000
MEDIUM == 1000
WEAK == 1

\* --------------------------------------------------------------- arithmetic
MinInt(a, b) == IF a <= b THEN a ELSE b
MaxInt(a, b) == IF a >= b THEN a ELSE b

RECURSIVE GCD(_, _)
GCD(a, b) == IF b = 0 THEN a ELSE GCD(b, a % b)

LCM(a, b) == (a * b) \div GCD(a, b)

\* u16::saturating_add, u16::saturating_sub, u16::saturating_mul
saturating_add(a, b) == MinInt(a + b, U16_MAX)
saturating_sub(a, b) == MaxInt(a - b, 0)
saturating_mul(a, b) == MinInt(a * b, U16_MAX)

\* the least element of a non-empty set of integers
Least(S) == CHOOSE x \in S : \A y \in S : x <= y

\* ------------------------------------------------------------------- Rect
Rect(x, y, w, h) == [x |-> x, y |-> y, width |-> w, height |-> h]

\* Rect::right and Rect::bottom: the exclusive bounds, saturating
right(r) == saturating_add(r.x, r.width)
bottom(r) == saturating_add(r.y, r.height)

\* Rect::inner: the rect inset by the margin on every side, the default
\* (empty) rect when the margin does not fit
inner(r, margin) ==
    LET dh == saturating_mul(margin.horizontal, 2)
        dv == saturating_mul(margin.vertical, 2)
    IN  IF r.width < dh \/ r.height < dv
        THEN Rect(0, 0, 0, 0)
        ELSE Rect(saturating_add(r.x, margin.horizontal),
                  saturating_add(r.y, margin.vertical),
                  saturating_sub(r.width, dh),
                  saturating_sub(r.height, dv))

\* ------------------------------------------------------------- constraints
Fixed(n) == [kind |-> "Fixed", a |-> n, b |-> 0]
Length(n) == [kind |-> "Length", a |-> n, b |-> 0]
Min(n) == [kind |-> "Min", a |-> n, b |-> 0]
Max(n) == [kind |-> "Max", a |-> n, b |-> 0]
Percentage(p) == [kind |-> "Percentage", a |-> p, b |-> 0]
Ratio(num, den) == [kind |-> "Ratio", a |-> num, b |-> den]
Proportional(w) == [kind |-> "Proportional", a |-> w, b |-> 0]

Flexes == {"Start", "Center", "End", "Stretch", "StretchLast",
           "SpaceAround", "SpaceBetween"}

\* struct Layout
Layout(direction, constraints, margin, flex, spacing) ==
    [direction |-> direction, constraints |-> constraints, margin |-> margin,
     flex |-> flex, spacing |-> spacing]

Margin(h, v) == [horizontal |-> h, vertical |-> v]

\* Layout::horizontal(constraints): the defaults of Layout::new
horizontal(constraints) ==
    Layout("Horizontal", constraints, Margin(0, 0), "StretchLast", 0)

\* -------------------------------------------------------------- strengths
\* A strength is held in tenths, in two limbs of base 10^5, so that
\* WEAK / 10.0 is exact and REQUIRED - 1.0 fits: value = (hi * 10^5 + lo) / 10.
Tenths(whole) == [hi |-> whole \div 10000, lo |-> (whole % 10000) * 10]

\* (mutation: the spacing no stronger than a grow term)
SPACER_SIZE_EQ_weak == Tenths(WEAK)
SPACER_SIZE_EQ == Tenths(REQUIRED - 1)
PROPORTIONAL_SCALING_EQ == Tenths(REQUIRED - 1)
\* (mutation: Fixed no stronger than Ratio)
FIXED_SIZE_EQ_medium == Tenths(MEDIUM)
FIXED_SIZE_EQ == Tenths(REQUIRED \div 10)
MIN_SIZE_GE == Tenths(STRONG * 10)
MAX_SIZE_LE == Tenths(STRONG * 10)
\* (mutation: Length stronger than the Min and Max bounds)
LENGTH_SIZE_EQ_above_bounds == Tenths(STRONG * 100)
LENGTH_SIZE_EQ == Tenths(STRONG \div 10)
PERCENTAGE_SIZE_EQ == Tenths(MEDIUM * 10)
RATIO_SIZE_EQ == Tenths(MEDIUM)
\* (mutation: the equality of Min stronger than Length)
MIN_SIZE_EQ_above_length == Tenths(STRONG)
MIN_SIZE_EQ == Tenths(MEDIUM \div 10)
MAX_SIZE_EQ == Tenths(MEDIUM \div 10)
PROPORTIONAL_GROW == Tenths(WEAK * 10)
GROW == Tenths(WEAK)
SPACE_GROW == [hi |-> 0, lo |-> WEAK]

\* ---------------------------------------------------------------- Element
\* struct Element { start, end }: two of the solver's variables, named by
\* their index in `variables`
Element(start, end) == [start |-> start, end |-> end]

\* itertools' tuples(): the consecutive pairs of a sequence, a trailing
\* single element dropped
tuples(vars) ==
    [i \in 1..(Len(vars) \div 2) |-> Element(vars[2 * i - 1], vars[2 * i])]

\* Iterator::skip(1)
skip1(vars) == IF Len(vars) = 0 THEN vars ELSE Tail(vars)

\* the number of solver variables of a layout with n constraints
variable_count(n) == n * 2 + 2

variables_of(n) == [i \in 1..variable_count(n) |-> i]
spacers_of(n) == tuples(variables_of(n))
\* (mutation: the segments taken without skip(1))
segments_of_unskipped(n) == tuples(variables_of(n))
segments_of(n) == tuples(skip1(variables_of(n)))
area_size_of(n) == Element(1, variable_count(n))

\* --------------------------------------------------- cassowary constraints
\* A scaling factor: whole + micro * 10^-6.
Whole(w) == [whole |-> w, micro |-> 0]
\* f64::from(scaling_factor).max(1e-6)
scaling(w) == IF w = 0 THEN [whole |-> 0, micro |-> 1] ELSE Whole(w)

Rat(num, den) == [num |-> num, den |-> den]
None == [start |-> 0, end |-> 0]

\* lf * size(lhs)  op  rf * size(rhs) + k      at the given strength
\* (rhs = None: no element on the right)
Constraint(lf, lhs, op, rf, rhs, k, strength) ==
    [lf |-> lf, lhs |-> lhs, op |-> op, rf |-> rf, rhs |-> rhs, k |-> k,
     strength |-> strength]

\* Element::has_max_size, has_min_size, has_int_size
has_max_size(e, size, strength) ==
    Constraint(Whole(1), e, "LE", Whole(0), None, Rat(size, 1), strength)
has_min_size(e, size, strength) ==
    Constraint(Whole(1), e, "GE", Whole(0), None, Rat(size, 1), strength)
has_int_size(e, size, strength) ==
    Constraint(Whole(1), e, "EQ", Whole(0), None, Rat(size, 1), strength)
\* Element::has_size with a number, and with another element's size
has_size(e, size, strength) ==
    Constraint(Whole(1), e, "EQ", Whole(0), None, size, strength)
has_size_of(e, other, strength) ==
    Constraint(Whole(1), e, "EQ", Whole(1), other, Rat(0, 1), strength)
\* Element::is_empty
is_empty(e) ==
    Constraint(Whole(1), e, "EQ", Whole(0), None, Rat(0, 1), Tenths(REQUIRED - 1))

\* Itertools::tuple_combinations over a sequence: the pairs (i, j), i < j,
\* in lexicographic order
RECURSIVE combinations_from(_, _, _)
combinations_from(n, i, j) ==
    IF i >= n THEN <<>>
    ELSE IF j > n THEN combinations_from(n, i + 1, i + 2)
    ELSE <<<<i, j>>>> \o combinations_from(n, i, j + 1)
tuple_combinations(n) == combinations_from(n, 1, 2)

RECURSIVE Flatten(_)
Flatten(ss) == IF Len(ss) = 0 THEN <<>> ELSE Head(ss) \o Flatten(Tail(ss))

\* ------------------------------------------------- the constraints of a layout
\* (mutation: spacers.get(0..spacers.len() - 1), the first spacer included)
spacers_except_last(spacers) ==
    IF Len(spacers) < 2 THEN <<>> ELSE SubSeq(spacers, 1, Len(spacers) - 1)

\* spacers.get(1..spacers.len() - 1).unwrap_or(&[])
spacers_except_first_and_last(spacers) ==
    IF Len(spacers) < 2 THEN <<>> ELSE SubSeq(spacers, 2, Len(spacers) - 1)

\* one constraint per pair of a tuple_combinations() over `elements`
pairwise(elements, strength) ==
    LET pairs == tuple_combinations(Len(elements))
    IN  [p \in 1..Len(pairs) |->
            has_size_of(elements[pairs[p][1]], elements[pairs[p][2]], strength)]

each_has_size(elements, size, strength) ==
    [i \in 1..Len(elements) |-> has_size(elements[i], size, strength)]

each_has_size_of(elements, other, strength) ==
    [i \in 1..Len(elements) |-> has_size_of(elements[i], other, strength)]

\* configure_flex_constraints: the constraints it adds, in the order it adds them
configure_flex_constraints(area, spacers, segments, flex, spacing) ==
    LET mid == spacers_except_first_and_last(spacers)
        first == spacers[1]
        last == spacers[Len(spacers)]
        spaced == each_has_size(mid, Rat(spacing, 1), SPACER_SIZE_EQ)
    IN  CASE flex = "SpaceAround" ->
                pairwise(spacers, SPACER_SIZE_EQ)
                \o each_has_size_of(spacers, area, SPACE_GROW)
          [] flex = "SpaceBetween" ->
                pairwise(mid, SPACER_SIZE_EQ)
                \o each_has_size_of(spacers, area, SPACE_GROW)
                \o <<is_empty(first), is_empty(last)>>
          [] flex = "StretchLast" ->
                spaced \o <<is_empty(first), is_empty(last)>>
          [] flex = "Stretch" ->
                spaced \o pairwise(segments, GROW)
                \o <<is_empty(first), is_empty(last)>>
          [] flex = "Start" ->
                spaced \o <<is_empty(first), has_size_of(last, area, GROW)>>
          [] flex = "Center" ->
                spaced \o <<has_size_of(first, area, GROW),
                            has_size_of(last, area, GROW),
                            has_size_of(first, last, SPACER_SIZE_EQ)>>
          [] flex = "End" ->
                spaced \o <<is_empty(last), has_size_of(first, area, GROW)>>

\* (mutation: a Ratio with the denominator 0 asks for an empty segment)
constraint_arm_zero_ratio(constraint, element, area, area_width) ==
    CASE constraint.kind = "Fixed" ->
            <<has_int_size(element, constraint.a, FIXED_SIZE_EQ)>>
      [] constraint.kind = "Max" ->
            <<has_max_size(element, constraint.a, MAX_SIZE_LE),
              has_int_size(element, constraint.a, MAX_SIZE_EQ)>>
      [] constraint.kind = "Min" ->
            <<has_min_size(element, constraint.a, MIN_SIZE_GE),
              has_int_size(element, constraint.a, MIN_SIZE_EQ)>>
      [] constraint.kind = "Length" ->
            <<has_int_size(element, constraint.a, LENGTH_SIZE_EQ)>>
      [] constraint.kind = "Percentage" ->
            <<has_size(element, Rat(area_width * constraint.a, 100),
                       PERCENTAGE_SIZE_EQ)>>
      [] constraint.kind = "Ratio" ->
            <<has_size(element,
                       IF constraint.b = 0 THEN Rat(0, 1)
                       ELSE Rat(area_width * constraint.a, constraint.b),
                       RATIO_SIZE_EQ)>>
      [] constraint.kind = "Proportional" ->
            <<has_size_of(element, area, PROPORTIONAL_GROW)>>

\* the arm of configure_constraints for one constraint and its element;
\* area_width is the value of area.size()
constraint_arm(constraint, element, area, area_width) ==
    CASE constraint.kind = "Fixed" ->
            <<has_int_size(element, constraint.a, FIXED_SIZE_EQ)>>
      [] constraint.kind = "Max" ->
            <<has_max_size(element, constraint.a, MAX_SIZE_LE),
              has_int_size(element, constraint.a, MAX_SIZE_EQ)>>
      [] constraint.kind = "Min" ->
            <<has_min_size(element, constraint.a, MIN_SIZE_GE),
              has_int_size(element, constraint.a, MIN_SIZE_EQ)>>
      [] constraint.kind = "Length" ->
            <<has_int_size(element, constraint.a, LENGTH_SIZE_EQ)>>
      [] constraint.kind = "Percentage" ->
            <<has_size(element, Rat(area_width * constraint.a, 100),
                       PERCENTAGE_SIZE_EQ)>>
      [] constraint.kind = "Ratio" ->
            <<has_size(element,
                       Rat(area_width * constraint.a, MaxInt(constraint.b, 1)),
                       RATIO_SIZE_EQ)>>
      [] constraint.kind = "Proportional" ->
            <<has_size_of(element, area, PROPORTIONAL_GROW)>>

\* configure_constraints
configure_constraints(area, area_width, segments, constraints) ==
    Flatten([i \in 1..MinInt(Len(constraints), Len(segments)) |->
                constraint_arm(constraints[i], segments[i], area, area_width)])

\* the indices of the Proportional constraints, in order
RECURSIVE proportional_indices(_, _)
proportional_indices(constraints, i) ==
    IF i > Len(constraints) THEN <<>>
    ELSE (IF constraints[i].kind = "Proportional" THEN <<i>> ELSE <<>>)
         \o proportional_indices(constraints, i + 1)

\* (mutation: each size scaled by its own factor, not by the other's)
configure_proportional_constraints_own_factor(segments, constraints) ==
    LET idx == proportional_indices(constraints, 1)
        pairs == tuple_combinations(Len(idx))
    IN  [p \in 1..Len(pairs) |->
            LET l == idx[pairs[p][1]]
                r == idx[pairs[p][2]]
            IN  Constraint(scaling(constraints[l].a), segments[l], "EQ",
                           scaling(constraints[r].a), segments[r], Rat(0, 1),
                           PROPORTIONAL_SCALING_EQ)]

\* configure_proportional_constraints
configure_proportional_constraints(segments, constraints) ==
    LET idx == proportional_indices(constraints, 1)
        pairs == tuple_combinations(Len(idx))
    IN  [p \in 1..Len(pairs) |->
            LET l == idx[pairs[p][1]]
                r == idx[pairs[p][2]]
            IN  Constraint(scaling(constraints[r].a), segments[l], "EQ",
                           scaling(constraints[l].a), segments[r], Rat(0, 1),
                           PROPORTIONAL_SCALING_EQ)]

\* every non-required constraint try_split adds, in the order it adds them
soft_constraints(layout, area_width) ==
    LET n == Len(layout.constraints)
    IN  configure_flex_constraints(area_size_of(n), spacers_of(n), segments_of(n),
                                   layout.flex, layout.spacing)
        \o configure_constraints(area_size_of(n), area_width, segments_of(n),
                                 layout.constraints)
        \o configure_proportional_constraints(segments_of(n), layout.constraints)

\* ------------------------------------------------------- the solver's grid
\* The solver works in f64.  The model keeps positions exact, as multiples
\* of a unit = unit_num / unit_den cells counted from area_start, where the
\* unit divides the area width, every constant of the constraints and the
\* equal shares the flex and the Proportional constraints can ask for.
RECURSIVE LCMOf(_)
LCMOf(S) == IF S = {} THEN 1
            ELSE LET x == CHOOSE y \in S : TRUE IN LCM(x, LCMOf(S \ {x}))

RECURSIVE GCDOf(_)
GCDOf(S) == IF S = {} THEN 0
            ELSE LET x == CHOOSE y \in S : TRUE IN GCD(x, GCDOf(S \ {x}))

\* the constants that appear in the constraints, and the area width
constants_of(cs, area_width) ==
    {Rat(area_width, 1)} \cup {cs[i].k : i \in 1..Len(cs)}

\* the least common denominator of the constants
common_denominator(ks) == LCMOf({k.den \div GCD(k.num, k.den) : k \in ks})

\* the shares the structure of the layout can divide the free space into
share_denominator(layout) ==
    LET n == Len(layout.constraints)
        idx == proportional_indices(layout.constraints, 1)
        weights == LET Sum[i \in 0..Len(idx)] ==
                           IF i = 0 THEN 0
                           ELSE Sum[i - 1] + layout.constraints[idx[i]].a
                   IN  Sum[Len(idx)]
        flexden == CASE layout.flex = "Center" -> 2
                     [] layout.flex = "Stretch" /\ n >= 2 -> n
                     [] layout.flex = "SpaceAround" -> n + 1
                     [] layout.flex = "SpaceBetween" /\ n >= 3 -> n - 1
                     [] OTHER -> 1
        propden == IF Len(idx) < 2 THEN 1
                   ELSE LCM(IF weights > 0 THEN weights ELSE Len(idx), Len(idx))
    IN  LCM(flexden, propden)

\* the unit of the grid, as the rational num / den
grid_unit(layout, area_width) ==
    LET ks == constants_of(soft_constraints(layout, area_width), area_width)
        dq == common_denominator(ks)
        g == GCDOf({(k.num * dq) \div k.den : k \in ks})
    IN  Rat(IF g = 0 THEN 1 ELSE g, dq * share_denominator(layout))

\* a rational number of cells, in units
in_units(k, unit) == (k.num * unit.den) \div (k.den * unit.num)

\* ------------------------------------------- the REQUIRED constraints
\* the non-decreasing sequences of the given length over lo..hi
RECURSIVE ascending(_, _, _)
ascending(len, lo, hi) ==
    IF len = 0 THEN {<<>>}
    ELSE UNION {{<<a>> \o s : s \in ascending(len - 1, a, hi)} : a \in lo..hi}

\* configure_area and configure_variable_constraints: the assignments of the
\* variables (offsets from area_start, in units) that satisfy every REQUIRED
\* constraint: the first variable at area_start, the last at area_end, all
\* in ascending order
configure_variable_constraints(n, width_units) ==
    {<<0>> \o s \o <<width_units>> : s \in ascending(variable_count(n) - 2, 0, width_units)}

\* ------------------------------------------------------------- violations
\* Element::size under an assignment
size(e, values) == IF e = None THEN 0 ELSE values[e.end] - values[e.start]

\* lhs - rhs of a constraint under an assignment, as whole + micro * 10^-6
difference(c, values, unit) ==
    [whole |-> c.lf.whole * size(c.lhs, values) - c.rf.whole * size(c.rhs, values)
               - in_units(c.k, unit),
     micro |-> c.lf.micro * size(c.lhs, values) - c.rf.micro * size(c.rhs, values)]

positive(d) == d.whole > 0 \/ (d.whole = 0 /\ d.micro > 0)
negated(d) == [whole |-> -d.whole, micro |-> -d.micro]
zero == [whole |-> 0, micro |-> 0]

\* by how much an assignment violates a constraint
violation(c, values, unit) ==
    LET d == difference(c, values, unit)
    IN  CASE c.op = "EQ" -> IF positive(d) THEN d ELSE negated(d)
          [] c.op = "LE" -> IF positive(d) THEN d ELSE zero
          [] c.op = "GE" -> IF positive(d) THEN zero ELSE negated(d)

\* the sum of strength * violation, kept in four exact parts:
\* (hw * 10^11 + lw * 10^6 + hm * 10^5 + lm) / 10^7
no_cost == [hw |-> 0, lw |-> 0, hm |-> 0, lm |-> 0]

add_cost(cost, c, values, unit) ==
    LET v == violation(c, values, unit)
    IN  [hw |-> cost.hw + c.strength.hi * v.whole,
         lw |-> cost.lw + c.strength.lo * v.whole,
         hm |-> cost.hm + c.strength.hi * v.micro,
         lm |-> cost.lm + c.strength.lo * v.micro]

\* a cost as three digits of base 10^5, most significant first
cost_key(cost) ==
    LET Base == 100000
        c0 == cost.lm
        c1 == 10 * cost.lw + cost.hm + (c0 \div Base)
        c2 == 10 * cost.hw + (c1 \div Base)
    IN  <<c2, c1 % Base, c0 % Base>>

\* the rows of least cost of a table of [values, cost, key] rows
cheapest(table) ==
    LET m1 == Least({r.key[1] : r \in table})
        s1 == {r \in table : r.key[1] = m1}
        m2 == Least({r.key[2] : r \in s1})
        s2 == {r \in s1 : r.key[2] = m2}
        m3 == Least({r.key[3] : r \in s2})
    IN  {r.values : r \in {q \in s2 : q.key[3] = m3}}

\* ----------------------------------------------------------------- Solver
\* Solver::add_constraint for the constraints cs[k..], one at a time: `at`
\* is the set of assignments the solver can be at, `table` holds the cost of
\* every feasible assignment under the constraints added so far.
RECURSIVE add_constraints(_, _, _, _, _)
add_constraints(cs, k, at, table, unit) ==
    IF k > Len(cs) THEN at
    ELSE LET table2 == {LET cost == add_cost(r.cost, cs[k], r.values, unit)
                        IN  [values |-> r.values, cost |-> cost,
                             key |-> cost_key(cost)] : r \in table}
             best == cheapest(table2)
         IN  add_constraints(cs, k + 1,
                             IF at \subseteq best THEN at ELSE best,
                             table2, unit)

\* the assignments Solver::fetch_changes can report for a layout and the
\* width of its inner area
solve(layout, area_width) ==
    LET unit == grid_unit(layout, area_width)
        feasible == configure_variable_constraints(Len(layout.constraints),
                                                   in_units(Rat(area_width, 1), unit))
    IN  add_constraints(soft_constraints(layout, area_width), 1, feasible,
                        {[values |-> x, cost |-> no_cost, key |-> <<0, 0, 0>>]
                            : x \in feasible},
                        unit)

\* -------------------------------------------------------------- try_split
\* f64::round (half away from zero) of the non-negative num / den, `as u16`
round_u16(num, den) == MinInt((2 * num + den) \div (2 * den), U16_MAX)

\* the value of every variable: area_start plus its offset, over unit.den
changes_of(values, area_start, unit) ==
    [i \in DOMAIN values |-> area_start * unit.den + values[i] * unit.num]

\* (mutation: the size rounded on its own, not the difference of the rounded ends)
changes_to_rects_size_rounded(changes, den, elements, area, direction) ==
    [i \in 1..Len(elements) |->
        LET start == round_u16(changes[elements[i].start], den)
            sz == round_u16(changes[elements[i].end] - changes[elements[i].start], den)
        IN  IF direction = "Horizontal"
            THEN Rect(start, area.y, sz, area.height)
            ELSE Rect(area.x, start, area.width, sz)]

\* changes_to_rects
changes_to_rects(changes, den, elements, area, direction) ==
    [i \in 1..Len(elements) |->
        LET start == round_u16(changes[elements[i].start], den)
            end == round_u16(changes[elements[i].end], den)
            sz == saturating_sub(end, start)
        IN  IF direction = "Horizontal"
            THEN Rect(start, area.y, sz, area.height)
            ELSE Rect(area.x, start, area.width, sz)]

area_start_of(layout, inner_area) ==
    IF layout.direction = "Horizontal" THEN inner_area.x ELSE inner_area.y
area_end_of(layout, inner_area) ==
    IF layout.direction = "Horizontal" THEN right(inner_area) ELSE bottom(inner_area)

\* Layout::try_split: every (segments, spacers) it can return
try_split(layout, area) ==
    LET inner_area == inner(area, layout.margin)
        area_start == area_start_of(layout, inner_area)
        area_end == area_end_of(layout, inner_area)
        n == Len(layout.constraints)
        unit == grid_unit(layout, area_end - area_start)
    IN  {LET changes == changes_of(values, area_start, unit)
         IN  [segments |-> changes_to_rects(changes, unit.den, segments_of(n),
                                            inner_area, layout.direction),
              spacers |-> changes_to_rects(changes, unit.den, spacers_of(n),
                                           inner_area, layout.direction)]
         : values \in solve(layout, area_end - area_start)}

\* --------------------------------------------------------------- LruCache
\* A cache is the sequence of its entries, most recently used first.
Key(area, layout) == [area |-> area, layout |-> layout]
Entry(key, value) == [key |-> key, value |-> value]

\* (mutation: the area left out of the comparison of keys)
find_by_layout(entries, key) ==
    IF \E i \in 1..Len(entries) : entries[i].key.layout = key.layout
    THEN CHOOSE i \in 1..Len(entries) : entries[i].key.layout = key.layout
    ELSE 0

\* where a key is in the cache, 0 when it is not: keys are compared whole
\* (Rect and Layout derive Eq and Hash over all their fields)
find(entries, key) ==
    IF \E i \in 1..Len(entries) : entries[i].key = key
    THEN CHOOSE i \in 1..Len(entries) : entries[i].key = key
    ELSE 0

\* LruCache::contains
contains(entries, key) == find(entries, key) # 0

\* LruCache::peek
peek(entries, key) == entries[find(entries, key)].value

without(entries, i) == SubSeq(entries, 1, i - 1) \o SubSeq(entries, i + 1, Len(entries))

\* (mutation: a hit leaves the entry where it is)
get_or_insert_unmoved(entries, cap, key, value) ==
    IF contains(entries, key) THEN entries
    ELSE IF Len(entries) >= cap
         THEN <<Entry(key, value)>> \o SubSeq(entries, 1, cap - 1)
         ELSE <<Entry(key, value)>> \o entries

\* LruCache::get_or_insert: a hit moves the entry to the front; a miss puts
\* the new entry at the front, the least recently used entry making room
\* when the cache is full
get_or_insert(entries, cap, key, value) ==
    IF contains(entries, key)
    THEN LET i == find(entries, key) IN <<entries[i]>> \o without(entries, i)
    ELSE IF Len(entries) >= cap
         THEN <<Entry(key, value)>> \o SubSeq(entries, 1, cap - 1)
         ELSE <<Entry(key, value)>> \o entries

\* ------------------------------------------------------------ StyledGrapheme
\* A StyledGrapheme of widgets/reflow.rs, by what the composers read of it:
\* its symbol (here the number that tells one grapheme cluster from another),
\* symbol.width() and is_whitespace().  The style travels with the symbol and
\* is never read.
StyledGrapheme(symbol, width, whitespace) ==
    [symbol |-> symbol, width |-> width, whitespace |-> whitespace]

\* the empty symbol "": no columns, and all of its (no) chars are whitespace
EmptySymbol == StyledGrapheme(0, 0, TRUE)

\* line.iter().map(|grapheme| grapheme.symbol.width() as u16).sum()
RECURSIVE line_width(_)
line_width(line) ==
    IF line = <<>> THEN 0 ELSE line[1].width + line_width(Tail(line))

\* ---------------------------------------------- WordWrapper::process_input
\* the locals of process_input before the first grapheme
process_input_start ==
    [result |-> <<>>, current_line |-> <<>>, current_line_width |-> 0,
     pending_word |-> <<>>, word_width |-> 0,
     pending_whitespace |-> <<>>, whitespace_width |-> 0,
     non_whitespace_previous |-> FALSE]

word_found(s, grapheme) == s.non_whitespace_previous /\ grapheme.whitespace

\* current word would overflow after removing whitespace
trimmed_overflow(s, grapheme, max_line_width, trim) ==
    /\ s.word_width + grapheme.width > max_line_width
    /\ s.current_line = <<>>
    /\ trim

\* whitespace_overflow that never holds: whitespace is not cut off on its own
whitespace_overflow_never(s, grapheme, max_line_width, trim) == FALSE

\* separated whitespace would overflow on its own
whitespace_overflow(s, grapheme, max_line_width, trim) ==
    /\ s.whitespace_width + grapheme.width > max_line_width
    /\ s.current_line = <<>>
    /\ trim

\* current full word (including whitespace) would overflow
untrimmed_overflow(s, grapheme, max_line_width, trim) ==
    /\ s.word_width + s.whitespace_width + grapheme.width > max_line_width
    /\ s.current_line = <<>>
    /\ ~trim

\* append_segment that keeps the whitespace before the first word whatever
\* trim is
append_segment_untrimmed(s, trim) ==
    [s EXCEPT
       !.current_line = @ \o s.pending_whitespace \o s.pending_word,
       !.current_line_width = @ + s.whitespace_width + s.word_width,
       !.pending_word = <<>>,
       !.pending_whitespace = <<>>,
       !.whitespace_width = 0,
       !.word_width = 0]

\* append_segment that drops the whitespace before the first word whatever
\* trim is
append_segment_trimmed(s, trim) ==
    LET kept == s.current_line # <<>>
    IN  [s EXCEPT
           !.current_line = (IF kept THEN @ \o s.pending_whitespace ELSE @)
                            \o s.pending_word,
           !.current_line_width = (IF kept THEN @ + s.whitespace_width ELSE @)
                                  + s.word_width,
           !.pending_word = <<>>,
           !.pending_whitespace = <<>>,
           !.whitespace_width = 0,
           !.word_width = 0]

\* append finished segment to current line
append_segment(s, trim) ==
    LET kept == s.current_line # <<>> \/ ~trim
    IN  [s EXCEPT
           !.current_line = (IF kept THEN @ \o s.pending_whitespace ELSE @)
                            \o s.pending_word,
           !.current_line_width = (IF kept THEN @ + s.whitespace_width ELSE @)
                                  + s.word_width,
           !.pending_word = <<>>,
           !.pending_whitespace = <<>>,
           !.whitespace_width = 0,
           !.word_width = 0]

\* line_finished that counts the grapheme in hand as part of the line
line_finished_with_symbol(s, grapheme, max_line_width) ==
    \/ s.current_line_width >= max_line_width
    \/ /\ s.current_line_width + s.whitespace_width + s.word_width + grapheme.width
            >= max_line_width
       /\ grapheme.width > 0

\* the condition under which the finished wrapped line joins the result
line_finished(s, grapheme, max_line_width) ==
    \/ s.current_line_width >= max_line_width
    \/ /\ s.current_line_width + s.whitespace_width + s.word_width >= max_line_width
       /\ grapheme.width > 0

\* remove whitespace up to the end of line
RECURSIVE remove_whitespace(_, _, _)
remove_whitespace(pending_whitespace, whitespace_width, remaining_width) ==
    IF pending_whitespace = <<>> \/ pending_whitespace[1].width > remaining_width
    THEN [pending_whitespace |-> pending_whitespace, whitespace_width |-> whitespace_width]
    ELSE remove_whitespace(Tail(pending_whitespace),
                           whitespace_width - pending_whitespace[1].width,
                           remaining_width - pending_whitespace[1].width)

\* add finished wrapped line to remaining lines
wrap_line(s, max_line_width) ==
    LET remaining_width == saturating_sub(max_line_width, s.current_line_width)
        rest == remove_whitespace(s.pending_whitespace, s.whitespace_width, remaining_width)
    IN  [s EXCEPT
           !.result = Append(@, s.current_line),
           !.current_line = <<>>,
           !.current_line_width = 0,
           !.pending_whitespace = rest.pending_whitespace,
           !.whitespace_width = rest.whitespace_width]

\* append symbol to a pending buffer
push_symbol(s, grapheme) ==
    IF grapheme.whitespace
    THEN [s EXCEPT !.whitespace_width = @ + grapheme.width,
                   !.pending_whitespace = Append(@, grapheme),
                   !.non_whitespace_previous = FALSE]
    ELSE [s EXCEPT !.word_width = @ + grapheme.width,
                   !.pending_word = Append(@, grapheme),
                   !.non_whitespace_previous = TRUE]

\* process_grapheme that lets the graphemes wider than max width in
process_grapheme_unfiltered(s, grapheme, max_line_width, trim) ==
    LET appended ==
            IF \/ word_found(s, grapheme)
               \/ trimmed_overflow(s, grapheme, max_line_width, trim)
               \/ whitespace_overflow(s, grapheme, max_line_width, trim)
               \/ untrimmed_overflow(s, grapheme, max_line_width, trim)
            THEN append_segment(s, trim)
            ELSE s
        finished == line_finished(appended, grapheme, max_line_width)
        wrapped == IF finished THEN wrap_line(appended, max_line_width)
                   ELSE appended
    IN  IF finished /\ grapheme.whitespace /\ wrapped.pending_whitespace = <<>>
        THEN wrapped
        ELSE push_symbol(wrapped, grapheme)

\* one turn of the loop over line_symbols
process_grapheme(s, grapheme, max_line_width, trim) ==
    IF grapheme.width > max_line_width
    THEN s      \* ignore symbols wider than max width
    ELSE LET appended ==
                 IF \/ word_found(s, grapheme)
                    \/ trimmed_overflow(s, grapheme, max_line_width, trim)
                    \/ whitespace_overflow(s, grapheme, max_line_width, trim)
                    \/ untrimmed_overflow(s, grapheme, max_line_width, trim)
                 THEN append_segment(s, trim)
                 ELSE s
             finished == line_finished(appended, grapheme, max_line_width)
             wrapped == IF finished THEN wrap_line(appended, max_line_width)
                        ELSE appended
         IN  \* don't count first whitespace toward next word
             IF finished /\ grapheme.whitespace /\ wrapped.pending_whitespace = <<>>
             THEN wrapped
             ELSE push_symbol(wrapped, grapheme)

RECURSIVE process_graphemes(_, _, _, _)
process_graphemes(s, line_symbols, max_line_width, trim) ==
    IF line_symbols = <<>> THEN s
    ELSE process_graphemes(process_grapheme(s, line_symbols[1], max_line_width, trim),
                           Tail(line_symbols), max_line_width, trim)

\* remaining_parts that leaves an empty result empty
remaining_parts_or_none(s, trim) ==
    LET pending == s.pending_word # <<>> \/ s.pending_whitespace # <<>>
        blank == pending /\ s.current_line = <<>> /\ s.pending_word = <<>>
        keeps == pending /\ ~blank /\ (~trim \/ s.current_line # <<>>)
        result == IF blank THEN Append(s.result, <<>>) ELSE s.result
        current_line == (IF keeps THEN s.current_line \o s.pending_whitespace
                         ELSE s.current_line) \o s.pending_word
    IN  IF current_line # <<>> THEN Append(result, current_line) ELSE result

\* append remaining text parts
remaining_parts(s, trim) ==
    LET pending == s.pending_word # <<>> \/ s.pending_whitespace # <<>>
        blank == pending /\ s.current_line = <<>> /\ s.pending_word = <<>>
        keeps == pending /\ ~blank /\ (~trim \/ s.current_line # <<>>)
        result == IF blank THEN Append(s.result, <<>>) ELSE s.result
        current_line == (IF keeps THEN s.current_line \o s.pending_whitespace
                         ELSE s.current_line) \o s.pending_word
        pushed == IF current_line # <<>> THEN Append(result, current_line) ELSE result
    IN  IF pushed = <<>> THEN << <<>> >> ELSE pushed

\* process_input(line_symbols): the lines that wrapped_lines goes on to emit
process_input(line_symbols, max_line_width, trim) ==
    remaining_parts(process_graphemes(process_input_start, line_symbols,
                                      max_line_width, trim), trim)

\* ------------------------------------------------ LineTruncator::next_line
\* trim_offset(src, offset): the grapheme clusters of src from the first one
\* that does not fit in the offset.  A StyledGrapheme is one cluster.
trim_offset(src, offset) ==
    IF src.width <= offset THEN EmptySymbol ELSE src

\* the locals of next_line before the first grapheme of the line
truncate_start(horizontal_offset) ==
    [current_line |-> <<>>, current_line_width |-> 0,
     horizontal_offset |-> horizontal_offset, truncated |-> FALSE]

\* truncate_grapheme that truncates once the line is full, not before the
\* grapheme that would overfill it
truncate_grapheme_when_full(s, grapheme, alignment, max_line_width) ==
    IF s.truncated \/ grapheme.width > max_line_width
    THEN s
    ELSE IF s.current_line_width >= max_line_width
    THEN [s EXCEPT !.truncated = TRUE]
    ELSE [s EXCEPT !.current_line_width = @ + grapheme.width,
                   !.current_line = Append(@, grapheme)]

\* one turn of the loop over current_line; truncated stands for the break
truncate_grapheme(s, grapheme, alignment, max_line_width) ==
    IF s.truncated \/ grapheme.width > max_line_width
    THEN s      \* Ignore characters wider that the total max width.
    ELSE IF s.current_line_width + grapheme.width > max_line_width
    THEN [s EXCEPT !.truncated = TRUE]
    ELSE LET whole == s.horizontal_offset = 0 \/ alignment # "Left"
             cut == grapheme.width > s.horizontal_offset
             symbol == IF whole THEN grapheme
                       ELSE IF cut THEN trim_offset(grapheme, s.horizontal_offset)
                       ELSE EmptySymbol
         IN  [s EXCEPT
                !.horizontal_offset = IF whole THEN @
                                      ELSE IF cut THEN 0 ELSE @ - grapheme.width,
                !.current_line_width = @ + symbol.width,
                !.current_line = Append(@, symbol)]

\* truncate_graphemes that skips the grapheme that does not fit and goes on
\* with the graphemes after it
RECURSIVE truncate_graphemes_skipping(_, _, _, _)
truncate_graphemes_skipping(s, line_symbols, alignment, max_line_width) ==
    IF line_symbols = <<>> THEN s
    ELSE truncate_graphemes_skipping(
             [truncate_grapheme(s, line_symbols[1], alignment, max_line_width)
                 EXCEPT !.truncated = FALSE],
             Tail(line_symbols), alignment, max_line_width)

\* the loop over current_line
RECURSIVE truncate_graphemes(_, _, _, _)
truncate_graphemes(s, line_symbols, alignment, max_line_width) ==
    IF line_symbols = <<>> THEN s
    ELSE truncate_graphemes(truncate_grapheme(s, line_symbols[1], alignment, max_line_width),
                            Tail(line_symbols), alignment, max_line_width)

\* ------------------------------------------------------------ Block::inner
\* Borders: the set of the sides that have a border
Borders_NONE == {}
Borders_ALL == {"TOP", "RIGHT", "BOTTOM", "LEFT"}

Padding(left, right_, top, bottom_) ==
    [left |-> left, right |-> right_, top |-> top, bottom |-> bottom_]

\* the fields of Block that inner reads; the titles by their number
Block(top_titles, bottom_titles, borders, padding) ==
    [top_titles |-> top_titles, bottom_titles |-> bottom_titles,
     borders |-> borders, padding |-> padding]

\* Block::new(): no borders, no titles, Padding::zero()
Block_new == Block(0, 0, Borders_NONE, Padding(0, 0, 0, 0))

\* (mutation: x and y advance without the .min(inner.right()) and
\* .min(inner.bottom()))
block_inner_unclamped(self, area) ==
    LET left == "LEFT" \in self.borders
        top == "TOP" \in self.borders \/ self.top_titles # 0
        rightmost == "RIGHT" \in self.borders
        lowest == "BOTTOM" \in self.borders \/ self.bottom_titles # 0
        a == IF left
             THEN [area EXCEPT !.x = saturating_add(area.x, 1),
                               !.width = saturating_sub(area.width, 1)]
             ELSE area
        b == IF top
             THEN [a EXCEPT !.y = saturating_add(a.y, 1),
                            !.height = saturating_sub(a.height, 1)]
             ELSE a
        c == IF rightmost THEN [b EXCEPT !.width = saturating_sub(b.width, 1)] ELSE b
        d == IF lowest THEN [c EXCEPT !.height = saturating_sub(c.height, 1)] ELSE c
    IN  Rect(saturating_add(d.x, self.padding.left),
             saturating_add(d.y, self.padding.top),
             saturating_sub(d.width, self.padding.left + self.padding.right),
             saturating_sub(d.height, self.padding.top + self.padding.bottom))

\* Block::inner(&self, area): the four ifs in the order of the code, then the
\* padding (its sums stay far below u16::MAX for the paddings of the model)
block_inner(self, area) ==
    LET left == "LEFT" \in self.borders
        top == "TOP" \in self.borders \/ self.top_titles # 0
        rightmost == "RIGHT" \in self.borders
        lowest == "BOTTOM" \in self.borders \/ self.bottom_titles # 0
        a == IF left
             THEN [area EXCEPT !.x = MinInt(saturating_add(area.x, 1), right(area)),
                               !.width = saturating_sub(area.width, 1)]
             ELSE area
        b == IF top
             THEN [a EXCEPT !.y = MinInt(saturating_add(a.y, 1), bottom(a)),
                            !.height = saturating_sub(a.height, 1)]
             ELSE a
        c == IF rightmost THEN [b EXCEPT !.width = saturating_sub(b.width, 1)] ELSE b
        d == IF lowest THEN [c EXCEPT !.height = saturating_sub(c.height, 1)] ELSE c
    IN  Rect(saturating_add(d.x, self.padding.left),
             saturating_add(d.y, self.padding.top),
             saturating_sub(d.width, self.padding.left + self.padding.right),
             saturating_sub(d.height, self.padding.top + self.padding.bottom))

\* ----------------------------------------------------------------- inputs
\* the constraints with a size in cells
Sized == {Fixed(n) : n \in 0..MaxLen} \cup {Length(n) : n \in 0..MaxLen}
         \cup {Min(n) : n \in 0..MaxLen} \cup {Max(n) : n \in 0..MaxLen}

Relative == {Percentage(50), Percentage(100), Ratio(1, 2), Ratio(1, 0), Ratio(2, 0),
             Ratio(2, 1)}
            \cup {Proportional(w) : w \in 0..MaxWeight}

\* one constraint of every kind, and a second Fixed
Common == {Fixed(n) : n \in 1..MaxLen}
          \cup {Length(1), Min(1), Max(1), Percentage(50), Proportional(1)}

\* the constraint lists of at most two constraints
Lists(K) == {<<>>} \cup {<<a>> : a \in K} \cup {<<a, b>> : a \in K, b \in K}

Row(width) == Rect(0, 0, width, 1)

\* Layout::horizontal over every list of constraints
DefaultInputs ==
    {Key(Row(w), horizontal(cs)) : w \in 0..MaxWidth, cs \in Lists(Sized \cup Relative)}

\* every flex and spacing
FlexInputs ==
    {Key(Row(w), Layout("Horizontal", cs, Margin(0, 0), f, sp)) :
        w \in 0..MaxWidth, cs \in Lists(Common), f \in Flexes, sp \in 0..MaxSpacing}

\* three constraints
TripleInputs ==
    {Key(Row(MaxWidth), Layout("Horizontal", cs, Margin(0, 0), f, sp)) :
        cs \in {<<Fixed(1), Fixed(1), Fixed(1)>>, <<Length(1), Min(0), Fixed(1)>>},
        f \in Flexes, sp \in 0..MaxSpacing}

\* both directions, margins, and areas up to the edge of the u16 coordinates
Positions == {0, U16_MAX - 1}
Extents == 0..(MaxWidth + 2 * MaxMargin)
GeometryInputs ==
    {Key(Rect(x, y, w, h), Layout(d, cs, Margin(mh, mv), f, 0)) :
        x \in Positions, y \in Positions, w \in Extents, h \in {1, 3},
        d \in {"Horizontal", "Vertical"}, mh \in 0..MaxMargin, mv \in 0..MaxMargin,
        cs \in {<<>>, <<Length(1)>>, <<Fixed(1), Min(0)>>, <<Percentage(50), Percentage(50)>>},
        f \in {"StretchLast", "Center"}}

\* the cases of the documentation and the tests over a width of 100
HundredInputs ==
    {Key(Row(100), horizontal(cs)) :
        cs \in {<<Length(25), Min(100)>>, <<Length(25), Min(0)>>,
                <<Proportional(1), Proportional(1)>>, <<Proportional(1), Proportional(2)>>,
                <<Proportional(0), Proportional(1)>>, <<Proportional(2), Proportional(0)>>,
                <<Fixed(50)>>, <<Fixed(25), Fixed(25)>>, <<Fixed(50), Fixed(50)>>,
                <<Fixed(100), Fixed(25)>>}}
    \cup {Key(Row(3), horizontal(<<Proportional(1), Fixed(1), Proportional(1)>>))}

Inputs == DefaultInputs \cup FlexInputs \cup TripleInputs \cup GeometryInputs
          \cup HundredInputs

\* the keys of the runs that exercise the cache: they differ in one field each
CacheKeys ==
    {Key(Row(2), horizontal(<<Length(1)>>)),
     Key(Rect(1, 0, 2, 1), horizontal(<<Length(1)>>)),
     Key(Row(2), Layout("Horizontal", <<Length(1)>>, Margin(0, 0), "End", 0))}

\* try_split is a pure function of the layout and the area: what it yields
\* for the keys of the cache runs is tabulated once
tabulated == [key \in CacheKeys |-> try_split(key.layout, key.area)]

\* self.try_split(area).expect("failed to split"): the REQUIRED constraints
\* can always be met, so try_split is never an Err
expect_try_split(layout, area) ==
    IF Key(area, layout) \in CacheKeys THEN tabulated[Key(area, layout)]
    ELSE try_split(layout, area)

\* ---------------------------------------------------- inputs of the composers
Alignments == <<"Left", "Center", "Right">>

\* an input line: (line_symbols, alignment) of the outer iterator
InputLine(line_symbols, alignment) ==
    [line_symbols |-> line_symbols, alignment |-> alignment]

\* what a grapheme can be: its columns and whether it is whitespace
Shapes == [width : 0..MaxSymbolWidth, whitespace : BOOLEAN]

\* the lines of n graphemes; the k-th grapheme has symbol k
SymbolsOf(n) ==
    {[k \in 1..n |-> StyledGrapheme(k, shapes[k].width, shapes[k].whitespace)] :
        shapes \in [1..n -> Shapes]}

\* texts of one line
OneLine ==
    {<<InputLine(line_symbols, alignment)>> :
        line_symbols \in UNION {SymbolsOf(n) : n \in 0..MaxGraphemes},
        alignment \in {"Left", "Right"}}

\* texts of two lines and more, of one grapheme at most, each line with its
\* own alignment
ManyLines ==
    UNION {{[k \in 1..n |-> InputLine(symbols[k], Alignments[((k - 1) % 3) + 1])] :
               symbols \in [1..n -> SymbolsOf(0) \cup SymbolsOf(1)]} :
           n \in 2..MaxLines}

\* n graphemes of one column that are no whitespace: "a".repeat(n)
Word(n) == [k \in 1..n |-> StyledGrapheme(k, 1, FALSE)]

\* line_composer_long_word: a word of 63 letters for a width of 20, and the
\* 65 letters of the truncation bound
LongWords ==
    {[text |-> <<InputLine(Word(n), "Left")>>, max_line_width |-> 20] : n \in {63, 65}}

\* line_composer_preserves_line_alignment: a Left, a Right and a Center line,
\* each a word longer than some of the widths, the second the longest
AlignedLines ==
    <<InputLine(Word(2), "Left"), InputLine(Word(3), "Right"), InputLine(Word(2), "Center")>>

\* n spaces after a first grapheme: whitespace of one column each
Spaces(n) == [k \in 1..n |-> StyledGrapheme(k + 1, 1, TRUE)]

\* a grapheme that is no whitespace, followed by spaces only
CharAndSpaces ==
    {<<InputLine(<<StyledGrapheme(1, width, FALSE)>> \o Spaces(n), "Left")>> :
        width \in 0..MaxSymbolWidth, n \in 1..MaxSpaces}

\* line_composer_char_plus_lots_of_spaces: "a" and 69 spaces for a width of 20
LotsOfSpaces ==
    [text |-> <<InputLine(<<StyledGrapheme(1, 1, FALSE)>> \o Spaces(69), "Left")>>,
     max_line_width |-> 20]

Texts ==
    {[text |-> t, max_line_width |-> w] :
        t \in OneLine \cup ManyLines \cup {AlignedLines} \cup CharAndSpaces,
        w \in 0..MaxLineWidth}
    \cup LongWords \cup {LotsOfSpaces}

\* ------------------------------------------------------- inputs of Block
\* areas at the origin and at the edge of the u16 coordinates, empty ones
\* included
BlockAreas ==
    {Rect(x, y, w, h) : x \in Positions \cup {U16_MAX}, y \in Positions \cup {U16_MAX},
                        w \in 0..MaxWidth, h \in 0..MaxWidth}

Paddings ==
    {Padding(l, r, t, b) : l \in 0..MaxPadding, r \in 0..MaxPadding,
                           t \in 0..MaxPadding, b \in 0..MaxPadding}

\* ------------------------------------------------------------------ state
VARIABLES
    keys,       \* the (area, layout) pairs the program splits
    capacity,   \* per thread: the capacity of LAYOUT_CACHE, 0 while the OnceLock is unset
    cache,      \* per thread: the entries of LAYOUT_CACHE
    panicked,   \* per thread: the thread has unwound from a panic
    history,    \* per thread: the keys of its calls, oldest first
    returned,   \* the last call and what it returned
    which,              \* the composer that was built: run_composer's Composer
    text,               \* the lines the composer was built on
    input_lines,        \* the given, unprocessed lines
    max_line_width,
    wrapped_lines,      \* WordWrapper: the lines of process_input not yet emitted
    current_alignment,  \* WordWrapper: the alignment of the input line in work
    current_line,       \* the buffer the last WrappedLine borrows
    trim,               \* WordWrapper: removes the leading whitespace from lines
    horizontal_offset,  \* LineTruncator: the offset to skip render
    lines,              \* what each next_line call of the composer returned
    pass,               \* 1, and 2 once the emitted lines were wrapped again
    first,              \* what the next_line calls of pass 1 returned
    block,              \* the Block that is built
    inner_call          \* the last Block::inner call: its block, its area and what it returned

layout_vars == <<keys, capacity, cache, panicked, history, returned>>

composer_vars == <<which, text, input_lines, max_line_width, wrapped_lines,
                   current_alignment, current_line, trim, horizontal_offset,
                   lines, pass, first>>

block_vars == <<block, inner_call>>

vars == <<layout_vars, composer_vars, block_vars>>

Threads == 1..MaxThreads

NoKey == Key(Rect(0, 0, 0, 0), horizontal(<<>>))

\* what a call returned: init_cache a bool (ok), the splits their rects
Returned(thread, op, cache_size, key, ok, panic, segments, spacers) ==
    [thread |-> thread, op |-> op, cache_size |-> cache_size, key |-> key,
     ok |-> ok, panic |-> panic, segments |-> segments, spacers |-> spacers]

RECURSIVE calls_of(_, _)
calls_of(h, t) == IF t = 0 THEN 0 ELSE Len(h[t]) + calls_of(h, t - 1)

\* ---------------------------------------------------------------- actions
\* Layout::init_cache(cache_size) in thread t.  NonZeroUsize::new(0) is None
\* and unwrap() panics before the OnceLock is touched.
init_cache(t, cache_size) ==
    /\ ~panicked[t]
    /\ IF cache_size = 0
       THEN /\ panicked' = [panicked EXCEPT ![t] = TRUE]
            /\ returned' = Returned(t, "init_cache", cache_size, NoKey, FALSE, TRUE, <<>>, <<>>)
            /\ UNCHANGED <<capacity, cache>>
       ELSE IF capacity[t] = 0
       THEN /\ capacity' = [capacity EXCEPT ![t] = cache_size]
            /\ cache' = [cache EXCEPT ![t] = <<>>]
            /\ returned' = Returned(t, "init_cache", cache_size, NoKey, TRUE, FALSE, <<>>, <<>>)
            /\ UNCHANGED panicked
       ELSE /\ returned' = Returned(t, "init_cache", cache_size, NoKey, FALSE, FALSE, <<>>, <<>>)
            /\ UNCHANGED <<capacity, cache, panicked>>
    /\ UNCHANGED <<keys, history>>
    /\ UNCHANGED composer_vars
    /\ UNCHANGED block_vars

\* the cache lookup of Layout::split_with_spacers in thread t: get_or_init
\* with DEFAULT_CACHE_SIZE, then get_or_insert with try_split
lookup(t, layout, area, op) ==
    LET cap == IF capacity[t] = 0 THEN DEFAULT_CACHE_SIZE ELSE capacity[t]
        key == Key(area, layout)
    IN  /\ ~panicked[t]
        /\ calls_of(history, MaxThreads) < MaxCalls
        /\ \E value \in (IF contains(cache[t], key) THEN {peek(cache[t], key)}
                         ELSE expect_try_split(layout, area)) :
              /\ capacity' = [capacity EXCEPT ![t] = cap]
              /\ cache' = [cache EXCEPT ![t] = get_or_insert(cache[t], cap, key, value)]
              /\ returned' = Returned(t, op, 0, key, TRUE, FALSE, value.segments,
                                      IF op = "split" THEN <<>> ELSE value.spacers)
        /\ history' = [history EXCEPT ![t] = Append(@, key)]
        /\ UNCHANGED <<keys, panicked>>
        /\ UNCHANGED composer_vars
        /\ UNCHANGED block_vars

\* Layout::split_with_spacers(area) in thread t
split_with_spacers(t, layout, area) == lookup(t, layout, area, "split_with_spacers")

\* Layout::split(area) in thread t: split_with_spacers(area).0
split(t, layout, area) == lookup(t, layout, area, "split")

\* ------------------------------------------------------------- the composers
\* Some(WrappedLine { line, width, alignment }); source is the number of the
\* input line it was made of and offset the horizontal_offset of the call
WrappedLine(line, width, alignment, source, offset) ==
    [some |-> TRUE, line |-> line, width |-> width, alignment |-> alignment,
     source |-> source, offset |-> offset]

NoLine ==
    [some |-> FALSE, line |-> <<>>, width |-> 0, alignment |-> "Left",
     source |-> 0, offset |-> 0]

\* the input lines taken from input_lines so far
consumed == Len(text) - Len(input_lines)

\* next_line calls that returned None
RECURSIVE idle_calls(_)
idle_calls(results) ==
    IF results = <<>> THEN 0
    ELSE (IF results[1].some THEN 0 ELSE 1) + idle_calls(Tail(results))

\* WordWrapper::new(lines, max_line_width, trim) and
\* LineTruncator::new(lines, max_line_width)
new(composer, input, width, trimmed) ==
    /\ which = composer
    /\ text = input
    /\ input_lines = input
    /\ max_line_width = width
    /\ wrapped_lines = <<>>
    /\ current_alignment = "Left"
    /\ current_line = <<>>
    /\ trim = trimmed
    /\ horizontal_offset = 0
    /\ lines = <<>>

\* that loop without self.current_alignment = line_alignment: the alignment
\* stays what it was
RECURSIVE next_cached_line_same_alignment(_, _, _, _, _)
next_cached_line_same_alignment(cached, input, alignment, width, trimmed) ==
    IF cached # <<>> \/ input = <<>>
    THEN [wrapped_lines |-> cached, input_lines |-> input, current_alignment |-> alignment]
    ELSE next_cached_line_same_alignment(process_input(input[1].line_symbols, width, trimmed),
                                         Tail(input), alignment, width, trimmed)

\* the loop of WordWrapper::next_line up to a cached line or the end of the
\* input: process pending wrapped lines from input
RECURSIVE next_cached_line(_, _, _, _, _)
next_cached_line(cached, input, alignment, width, trimmed) ==
    IF cached # <<>> \/ input = <<>>
    THEN [wrapped_lines |-> cached, input_lines |-> input, current_alignment |-> alignment]
    ELSE next_cached_line(process_input(input[1].line_symbols, width, trimmed),
                          Tail(input), input[1].alignment, width, trimmed)

\* WordWrapper::next_line
WordWrapper_next_line ==
    /\ which = "WordWrapper"
    /\ idle_calls(lines) < MaxIdleCalls
    /\ IF max_line_width = 0
       THEN /\ lines' = Append(lines, NoLine)
            /\ UNCHANGED <<input_lines, wrapped_lines, current_alignment, current_line>>
       ELSE LET s == next_cached_line(wrapped_lines, input_lines, current_alignment,
                                      max_line_width, trim)
            IN  /\ input_lines' = s.input_lines
                /\ current_alignment' = s.current_alignment
                /\ IF s.wrapped_lines = <<>>
                   THEN /\ lines' = Append(lines, NoLine)
                        /\ UNCHANGED <<wrapped_lines, current_line>>
                   ELSE /\ wrapped_lines' = Tail(s.wrapped_lines)
                        /\ current_line' = s.wrapped_lines[1]
                        /\ lines' = Append(lines,
                                           WrappedLine(s.wrapped_lines[1],
                                                       line_width(s.wrapped_lines[1]),
                                                       s.current_alignment,
                                                       Len(text) - Len(s.input_lines), 0))
    /\ UNCHANGED <<which, text, max_line_width, trim, horizontal_offset, pass, first>>
    /\ UNCHANGED layout_vars
    /\ UNCHANGED block_vars

\* LineTruncator::set_horizontal_offset(horizontal_offset)
set_horizontal_offset(offset) ==
    /\ which = "LineTruncator"
    /\ horizontal_offset' = offset
    /\ UNCHANGED <<which, text, input_lines, max_line_width, wrapped_lines,
                   current_alignment, current_line, trim, lines, pass, first>>
    /\ UNCHANGED layout_vars
    /\ UNCHANGED block_vars

\* LineTruncator::next_line without the early return for max_line_width == 0
LineTruncator_next_line_any_width ==
    /\ which = "LineTruncator"
    /\ idle_calls(lines) < MaxIdleCalls
    /\ IF input_lines = <<>>
       THEN /\ current_line' = <<>>
            /\ lines' = Append(lines, NoLine)
            /\ UNCHANGED input_lines
       ELSE LET s == truncate_graphemes(truncate_start(horizontal_offset),
                                        input_lines[1].line_symbols,
                                        input_lines[1].alignment, max_line_width)
            IN  /\ input_lines' = Tail(input_lines)
                /\ current_line' = s.current_line
                /\ lines' = Append(lines, WrappedLine(s.current_line, s.current_line_width,
                                                      input_lines[1].alignment, consumed + 1,
                                                      horizontal_offset))
    /\ UNCHANGED <<which, text, max_line_width, wrapped_lines, current_alignment,
                   trim, horizontal_offset, pass, first>>
    /\ UNCHANGED layout_vars
    /\ UNCHANGED block_vars

\* LineTruncator::next_line
LineTruncator_next_line ==
    /\ which = "LineTruncator"
    /\ idle_calls(lines) < MaxIdleCalls
    /\ IF max_line_width = 0
       THEN /\ lines' = Append(lines, NoLine)
            /\ UNCHANGED <<input_lines, current_line>>
       ELSE IF input_lines = <<>>
       THEN /\ current_line' = <<>>
            /\ lines' = Append(lines, NoLine)
            /\ UNCHANGED input_lines
       ELSE LET s == truncate_graphemes(truncate_start(horizontal_offset),
                                        input_lines[1].line_symbols,
                                        input_lines[1].alignment, max_line_width)
            IN  /\ input_lines' = Tail(input_lines)
                /\ current_line' = s.current_line
                /\ lines' = Append(lines, WrappedLine(s.current_line, s.current_line_width,
                                                      input_lines[1].alignment, consumed + 1,
                                                      horizontal_offset))
    /\ UNCHANGED <<which, text, max_line_width, wrapped_lines, current_alignment,
                   trim, horizontal_offset, pass, first>>
    /\ UNCHANGED layout_vars
    /\ UNCHANGED block_vars

\* the lines a composer emitted, as the input lines of another composer
RECURSIVE emitted(_)
emitted(results) ==
    IF results = <<>> THEN <<>>
    ELSE (IF results[1].some
          THEN <<InputLine(results[1].line, results[1].alignment)>> ELSE <<>>)
         \o emitted(Tail(results))

\* a WordWrapper that has run dry is dropped, and WordWrapper::new builds one
\* with the same max_line_width and trim on the lines it emitted
rewrap ==
    /\ which = "WordWrapper"
    /\ pass = 1
    /\ lines # <<>>
    /\ ~lines[Len(lines)].some
    /\ pass' = 2
    /\ first' = lines
    /\ text' = emitted(lines)
    /\ input_lines' = emitted(lines)
    /\ wrapped_lines' = <<>>
    /\ current_alignment' = "Left"
    /\ current_line' = <<>>
    /\ lines' = <<>>
    /\ UNCHANGED <<which, max_line_width, trim, horizontal_offset>>
    /\ UNCHANGED layout_vars
    /\ UNCHANGED block_vars

\* ----------------------------------------------------------------- Block
\* the block an inner call was made on, the area it was given and what it
\* returned
InnerCall(called, self, area, result) ==
    [called |-> called, self |-> self, area |-> area, inner |-> result]

NoInnerCall == InnerCall(FALSE, Block_new, Rect(0, 0, 0, 0), Rect(0, 0, 0, 0))

\* The builder methods take the block by value and return it; inner borrows
\* the block that was built.
\* Block::top_title(title), and Block::title(title), which calls it
top_title ==
    /\ ~inner_call.called
    /\ block.top_titles < MaxTitles
    /\ block' = [block EXCEPT !.top_titles = @ + 1]
    /\ UNCHANGED <<inner_call, layout_vars, composer_vars>>

\* Block::bottom_title(title)
bottom_title ==
    /\ ~inner_call.called
    /\ block.bottom_titles < MaxTitles
    /\ block' = [block EXCEPT !.bottom_titles = @ + 1]
    /\ UNCHANGED <<inner_call, layout_vars, composer_vars>>

\* Block::borders(flag)
borders(flag) ==
    /\ ~inner_call.called
    /\ block' = [block EXCEPT !.borders = flag]
    /\ UNCHANGED <<inner_call, layout_vars, composer_vars>>

\* Block::padding(padding)
padding(value) ==
    /\ ~inner_call.called
    /\ block' = [block EXCEPT !.padding = value]
    /\ UNCHANGED <<inner_call, layout_vars, composer_vars>>

\* Block::inner(area)
Block_inner(area) ==
    /\ inner_call' = InnerCall(TRUE, block, area, block_inner(block, area))
    /\ UNCHANGED <<block, layout_vars, composer_vars>>

\* ------------------------------------------------------------------- specs
\* no Block is built
NoBlock == block = Block_new /\ inner_call = NoInnerCall

\* no composer is built
NoComposer ==
    /\ which = "none"
    /\ text = <<>>
    /\ input_lines = <<>>
    /\ max_line_width = 0
    /\ wrapped_lines = <<>>
    /\ current_alignment = "Left"
    /\ current_line = <<>>
    /\ trim = FALSE
    /\ horizontal_offset = 0
    /\ lines = <<>>
    /\ pass = 1
    /\ first = <<>>

NoCall == Returned(0, "none", 0, NoKey, FALSE, FALSE, <<>>, <<>>)

Fresh ==
    /\ capacity = [t \in Threads |-> 0]
    /\ cache = [t \in Threads |-> <<>>]
    /\ panicked = [t \in Threads |-> FALSE]
    /\ history = [t \in Threads |-> <<>>]
    /\ returned = NoCall
    /\ NoComposer
    /\ NoBlock

\* threads that configure, fill and share nothing but the code
Init == keys = CacheKeys /\ Fresh

Next ==
    \E t \in Threads :
        \/ \E cache_size \in 0..MaxCacheSize : init_cache(t, cache_size)
        \/ \E key \in keys : split(t, key.layout, key.area)
        \/ \E key \in keys : split_with_spacers(t, key.layout, key.area)

Spec == Init /\ [][Next]_vars

\* one thread that splits one area by one layout, over every input
InitSolve == keys \in {{key} : key \in Inputs} /\ Fresh

NextSolve ==
    \E key \in keys :
        \/ split(1, key.layout, key.area)
        \/ split_with_spacers(1, key.layout, key.area)

SpecSolve == InitSolve /\ [][NextSolve]_vars

\* no thread splits anything
NoLayout == keys = {} /\ capacity = [t \in Threads |-> 0]
            /\ cache = [t \in Threads |-> <<>>]
            /\ panicked = [t \in Threads |-> FALSE]
            /\ history = [t \in Threads |-> <<>>]
            /\ returned = NoCall

\* run_composer: one composer over one text, its next_line called until it
\* has run dry and some more
InitReflow ==
    /\ NoLayout
    /\ NoBlock
    /\ pass = 1
    /\ first = <<>>
    /\ \E input \in Texts :
          \/ \E trimmed \in BOOLEAN :
                new("WordWrapper", input.text, input.max_line_width, trimmed)
          \/ new("LineTruncator", input.text, input.max_line_width, FALSE)

NextReflow ==
    \/ WordWrapper_next_line
    \/ LineTruncator_next_line
    \/ \E offset \in 0..MaxOffset : set_horizontal_offset(offset)
    \/ rewrap

SpecReflow == InitReflow /\ [][NextReflow]_vars

\* a Block::new() that is given titles, borders and a padding, and asked for
\* its inner area
InitBlock == NoLayout /\ NoComposer /\ NoBlock

NextBlock ==
    \/ top_title
    \/ bottom_title
    \/ \E flag \in SUBSET Borders_ALL : borders(flag)
    \/ \E value \in Paddings : padding(value)
    \/ \E area \in BlockAreas : Block_inner(area)

SpecBlock == InitBlock /\ [][NextBlock]_vars

\* ================================================================= claims
\* what the last call was given and what it gave back
Layout_ == returned.key.layout
Area_ == returned.key.area
Inset_ == inner(Area_, Layout_.margin)
N_ == Len(Layout_.constraints)
SplitWithSpacersReturned == returned.op = "split_with_spacers"
SplitReturned == returned.op = "split"

\* a rect along the direction of the layout
Start(r) == IF Layout_.direction = "Horizontal" THEN r.x ELSE r.y
Size(r) == IF Layout_.direction = "Horizontal" THEN r.width ELSE r.height

\* spacer[0], segment[0], spacer[1], ..., segment[N-1], spacer[N]
Interleaved ==
    [i \in 1..(Len(returned.spacers) + Len(returned.segments)) |->
        IF i % 2 = 1 THEN returned.spacers[(i + 1) \div 2] ELSE returned.segments[i \div 2]]

RECURSIVE SumSizes(_, _)
SumSizes(rects, i) == IF i = 0 THEN 0 ELSE Size(rects[i]) + SumSizes(rects, i - 1)

\* the rects, in order, run from `from` to `to` without gap or overlap
Tile(rects, from, to) ==
    /\ Len(rects) > 0
    /\ Start(rects[1]) = from
    /\ \A i \in 1..(Len(rects) - 1) : Start(rects[i + 1]) = Start(rects[i]) + Size(rects[i])
    /\ Start(rects[Len(rects)]) + Size(rects[Len(rects)]) = to

\* ---------------------------------------------------------------------- C1
\* C1 as stated: for every layout and every rect, the spacers and segments
\* of split_with_spacers tile the inset area along the direction, and their
\* sizes sum to the inset area's size along the direction.
C1_TilesEveryRect ==
    SplitWithSpacersReturned =>
        /\ Tile(Interleaved, Start(Inset_), area_end_of(Layout_, Inset_))
        /\ SumSizes(Interleaved, Len(Interleaved)) = Size(Inset_)

\* C1, amended: the spacers and segments of split_with_spacers always tile
\* the inset area from its start to its (saturating) right or bottom bound;
\* their sizes sum to the inset area's size whenever that bound does not
\* saturate, i.e. start + size <= u16::MAX.
C1_TilesInsetArea ==
    SplitWithSpacersReturned =>
        /\ Tile(Interleaved, Start(Inset_), area_end_of(Layout_, Inset_))
        /\ Start(Inset_) + Size(Inset_) <= U16_MAX
              => SumSizes(Interleaved, Len(Interleaved)) = Size(Inset_)

\* a vertical layout with a margin whose first segment got a cell
C1_Witness ==
    /\ SplitWithSpacersReturned
    /\ Layout_.direction = "Vertical" /\ Layout_.margin.vertical = 1
    /\ N_ = 2 /\ Size(returned.segments[1]) = 1
    /\ Tile(Interleaved, Inset_.y, Inset_.y + Inset_.height)

\* ---------------------------------------------------------------------- C2
\* C2: for a layout of N constraints (N = 0 included) split returns exactly
\* N segments, in the order of the constraints along the direction, and
\* split_with_spacers returns exactly N segments and N + 1 spacers.
C2_Counts ==
    /\ SplitReturned \/ SplitWithSpacersReturned =>
          /\ Len(returned.segments) = N_
          /\ \A i \in 1..(Len(returned.segments) - 1) :
                Start(returned.segments[i]) + Size(returned.segments[i])
                    <= Start(returned.segments[i + 1])
    /\ SplitWithSpacersReturned => Len(returned.spacers) = N_ + 1

\* split_with_spacers of three constraints gave three segments, four spacers
C2_Witness ==
    /\ SplitWithSpacersReturned /\ N_ = 3
    /\ Len(returned.segments) = 3 /\ Len(returned.spacers) = 4

\* ---------------------------------------------------------------------- C3
\* the size the area offers along the direction: area_end - area_start
Width_ == area_end_of(Layout_, Inset_) - Start(Inset_)

IsFixed(i) == Layout_.constraints[i].kind = "Fixed"

RECURSIVE FixedSum(_)
FixedSum(i) ==
    IF i = 0 THEN 0
    ELSE (IF IsFixed(i) THEN Layout_.constraints[i].a ELSE 0) + FixedSum(i - 1)

\* the room the spacers between the segments must get
Gaps == IF Layout_.flex \in {"SpaceAround", "SpaceBetween"} THEN 0
        ELSE (N_ - 1) * Layout_.spacing

\* something other than a Fixed segment can take the rest of the area
RestAbsorbed ==
    \/ \E i \in 1..N_ : ~IsFixed(i)
    \/ Layout_.flex \in {"Start", "End", "Center", "SpaceAround"}
    \/ Layout_.flex = "SpaceBetween" /\ N_ >= 2

\* C3 as stated: a Fixed(n) constraint always yields a segment of exactly
\* size n, whatever the neighbours, the flex and the area are.
C3_FixedAlways ==
    SplitReturned \/ SplitWithSpacersReturned =>
        \A i \in 1..N_ : IsFixed(i) => Size(returned.segments[i]) = Layout_.constraints[i].a

\* C3, amended: a Fixed(n) constraint yields a segment of exactly size n
\* whenever the Fixed sizes and the spacing between the segments fit in the
\* area and a non-Fixed segment or a growing spacer can take the rest.
C3_FixedWhenItFits ==
    (SplitReturned \/ SplitWithSpacersReturned) /\ FixedSum(N_) + Gaps <= Width_ /\ RestAbsorbed =>
        \A i \in 1..N_ : IsFixed(i) => Size(returned.segments[i]) = Layout_.constraints[i].a

\* a Fixed(1) kept its cell although Length(2) beside it asked for the
\* whole area of width 2
C3_Witness ==
    /\ SplitReturned /\ Layout_.constraints = <<Length(2), Fixed(1)>> /\ Width_ = 2
    /\ Layout_.flex = "StretchLast"
    /\ Size(returned.segments[2]) = 1 /\ Size(returned.segments[1]) = 1

\* ---------------------------------------------------------------------- C4
\* a split of two constraints by Layout::horizontal (flex StretchLast, no
\* spacing, no margin) returned
DefaultPairReturned ==
    /\ SplitReturned \/ SplitWithSpacersReturned
    /\ N_ = 2
    /\ Layout_ = horizontal(Layout_.constraints)

\* Fixed > Min/Max bound > Length > Percentage > Ratio > Proportional
Rank(c) ==
    CASE c.kind = "Fixed" -> 6
      [] c.kind \in {"Min", "Max"} -> 5
      [] c.kind = "Length" -> 4
      [] c.kind = "Percentage" -> 3
      [] c.kind = "Ratio" -> 2
      [] c.kind = "Proportional" -> 1

\* the size a constraint asks for in an area of the given width, in cells
Requested(c, width) ==
    CASE c.kind = "Percentage" -> Rat(width * c.a, 100)
      [] c.kind = "Ratio" -> Rat(width * c.a, MaxInt(c.b, 1))
      [] OTHER -> Rat(c.a, 1)

\* ... and no more than the area has
Capped(r, width) == IF r.num > width * r.den THEN Rat(width, 1) ELSE r

Rounded(r) == (2 * r.num + r.den) \div (2 * r.den)

\* segment i of the pair has the size its constraint asks for: an exact
\* kind its requested size, measured from the edge of the area the segment
\* sits at and rounded as the solver's result is; Min and Max their bound
Keeps(i) ==
    LET c == Layout_.constraints[i]
        got == Size(returned.segments[i])
        want == Capped(Requested(c, Width_), Width_)
    IN  CASE c.kind = "Min" -> got >= MinInt(c.a, Width_)
          [] c.kind = "Max" -> got <= c.a
          [] c.kind = "Proportional" -> TRUE
          [] OTHER ->
                IF i = 1 THEN got = Rounded(want)
                ELSE got = Width_ - Rounded(Rat(Width_ * want.den - want.num, want.den))

\* the segment that wins: the higher rank, the earlier one of equal rank
Winner ==
    IF Rank(Layout_.constraints[2]) > Rank(Layout_.constraints[1]) THEN 2 ELSE 1

Widths == [i \in 1..Len(returned.segments) |-> returned.segments[i].width]

\* C4: of two constraints of a default layout the one of the higher rank in
\* Fixed > Min/Max bound > Length > Percentage > Ratio > Proportional keeps
\* its requested size and the other takes what is left, the earlier one
\* winning among equals; width 1 with [Length(2), Length(1)] gives [1, 0],
\* width 100 with [Length(25), Min(100)] gives [0, 100] and with
\* [Length(25), Min(0)] gives [25, 75].
C4_Priority ==
    DefaultPairReturned =>
        /\ Keeps(Winner)
        /\ Size(returned.segments[1]) + Size(returned.segments[2]) = Width_
        /\ returned.key = Key(Row(1), horizontal(<<Length(2), Length(1)>>))
              => Widths = <<1, 0>>
        /\ returned.key = Key(Row(100), horizontal(<<Length(25), Min(100)>>))
              => Widths = <<0, 100>>
        /\ returned.key = Key(Row(100), horizontal(<<Length(25), Min(0)>>))
              => Widths = <<25, 75>>

\* Min(100) after Length(25) took the whole width of 100
C4_Witness ==
    /\ DefaultPairReturned
    /\ returned.key = Key(Row(100), horizontal(<<Length(25), Min(100)>>))
    /\ Winner = 2 /\ Widths = <<0, 100>>

\* ---------------------------------------------------------------------- C5
\* a split of [Proportional(a), Proportional(b)] by Layout::horizontal returned
ProportionalPairReturned ==
    /\ DefaultPairReturned
    /\ \A i \in 1..2 : Layout_.constraints[i].kind = "Proportional"

Weight(i) == Layout_.constraints[i].a

\* C5: two Proportional segments share the width in the ratio of their
\* weights (the first gets width * a / (a + b), rounded, the second the
\* rest); over width 100 [Proportional(1), Proportional(1)] gives [50, 50]
\* and [Proportional(1), Proportional(2)] gives 33 or 34 and 66 or 67,
\* summing to 100; a Proportional(0) beside a Proportional of positive
\* weight gets width 0; around a Fixed(1) in width 3 two Proportional(1)
\* get one cell each.
C5_Proportional ==
    /\ ProportionalPairReturned =>
          /\ Widths[1] + Widths[2] = Width_
          /\ Weight(1) > 0 /\ Weight(2) > 0 =>
                Widths[1] = Rounded(Rat(Width_ * Weight(1), Weight(1) + Weight(2)))
          /\ Weight(1) = 0 /\ Weight(2) > 0 => Widths[1] = 0
          /\ Weight(2) = 0 /\ Weight(1) > 0 => Widths[2] = 0
          /\ returned.key = Key(Row(100), horizontal(<<Proportional(1), Proportional(1)>>))
                => Widths = <<50, 50>>
          /\ returned.key = Key(Row(100), horizontal(<<Proportional(1), Proportional(2)>>))
                => Widths[1] \in {33, 34} /\ Widths[2] \in {66, 67}
    /\ (SplitReturned \/ SplitWithSpacersReturned)
       /\ returned.key = Key(Row(3), horizontal(<<Proportional(1), Fixed(1), Proportional(1)>>))
          => Widths = <<1, 1, 1>>

\* [Proportional(1), Proportional(2)] over width 100 gave 33 and 67
C5_Witness ==
    /\ ProportionalPairReturned
    /\ returned.key = Key(Row(100), horizontal(<<Proportional(1), Proportional(2)>>))
    /\ Widths = <<33, 67>>

\* ---------------------------------------------------------------------- C6
\* what a solve that bypasses the cache can yield for a key
Uncached(key) == expect_try_split(key.layout, key.area)

\* C6: the cache is transparent: every entry of every thread's cache holds
\* a result of an uncached solve of its own key, no key has two entries,
\* and every split / split_with_spacers call returns what an uncached solve
\* of its (area, layout) yields, whether it hit or missed.
C6_Transparent ==
    /\ \A t \in Threads : \A i \in 1..Len(cache[t]) :
          /\ cache[t][i].value \in Uncached(cache[t][i].key)
          /\ \A j \in 1..Len(cache[t]) : cache[t][j].key = cache[t][i].key => j = i
    /\ SplitWithSpacersReturned =>
          [segments |-> returned.segments, spacers |-> returned.spacers]
              \in Uncached(returned.key)
    /\ SplitReturned =>
          \E value \in Uncached(returned.key) : value.segments = returned.segments

\* a hit: the thread split the same key before, other keys in between, and
\* got the key's own result from a cache that holds another key's entry too
C6_Witness ==
    \E t \in Threads :
        /\ returned.thread = t /\ SplitWithSpacersReturned
        /\ Len(history[t]) = 3 /\ history[t][1] = returned.key
        /\ history[t][2] # returned.key /\ history[t][3] = returned.key
        /\ history[t][2].layout = returned.key.layout
        /\ Len(cache[t]) = 2
        /\ returned.segments = <<Rect(1, 0, 2, 1)>>

\* ---------------------------------------------------------------------- C7
\* C7 as stated: in a thread init_cache returns true only before any other
\* init_cache and any split of the thread; every later init_cache call
\* returns false and leaves the capacity unchanged; the capacity is the
\* argument of the successful call, or DEFAULT_CACHE_SIZE when a split came
\* first.
C7_InitOnce ==
    [][\A t \in Threads :
          /\ \A cache_size \in 0..MaxCacheSize : init_cache(t, cache_size) =>
                /\ returned'.ok => capacity[t] = 0 /\ history[t] = <<>>
                                   /\ capacity'[t] = cache_size
                /\ capacity[t] # 0 => /\ ~returned'.panic /\ ~returned'.ok
                                      /\ capacity'[t] = capacity[t]
          /\ capacity[t] # 0 => capacity'[t] = capacity[t]
          /\ capacity[t] = 0 /\ history'[t] # history[t] => capacity'[t] = DEFAULT_CACHE_SIZE
      ]_vars

\* ---------------------------------------------------------------------- C8
\* C8 as stated: every init_cache(cache_size) call, 0 included, in every
\* cache state either initialises the cache and reports success or changes
\* nothing and reports failure; it never faults.
C8_NeverFaults ==
    returned.op = "init_cache" => ~returned.panic

\* ---------------------------------------------------------------------- C9
CachedKeys(entries) == {entries[i].key : i \in 1..Len(entries)}

\* when a key was last used in a history of calls, 0 when it never was
LastUse(h, key) ==
    IF \E i \in 1..Len(h) : h[i] = key
    THEN CHOOSE i \in 1..Len(h) : h[i] = key /\ \A j \in (i + 1)..Len(h) : h[j] # key
    ELSE 0

\* the cached key whose last use is the oldest
LeastRecentlyUsed(entries, h) ==
    CHOOSE key \in CachedKeys(entries) :
        \A other \in CachedKeys(entries) : LastUse(h, key) <= LastUse(h, other)

C10_OwnCache ==
    [][\A t \in Threads :
          /\ returned'.thread # t /\ returned' # returned =>
                capacity'[t] = capacity[t] /\ cache'[t] = cache[t]
          /\ \A cache_size \in 0..MaxCacheSize :
                init_cache(t, cache_size) /\ capacity[t] = 0 /\ history[t] = <<>>
                    => returned'.ok
      ]_vars

\* ===================================================== claims C11..C20
\* the next_line calls of the composer that returned a line
Emitted == {i \in 1..Len(lines) : lines[i].some}

Wrapping == which = "WordWrapper"
Truncating == which = "LineTruncator"

\* the composer has run dry: its last next_line call returned None
Dry(results) == results # <<>> /\ ~results[Len(results)].some

\* the lines next_line returned that were made of input line n, in order
RECURSIVE LinesOf(_, _)
LinesOf(results, n) ==
    IF results = <<>> THEN <<>>
    ELSE (IF results[1].some /\ results[1].source = n THEN <<results[1].line>> ELSE <<>>)
         \o LinesOf(Tail(results), n)

\* the graphemes of some lines, one after the other
RECURSIVE Concat(_)
Concat(ls) == IF ls = <<>> THEN <<>> ELSE ls[1] \o Concat(Tail(ls))

\* --------------------------------------------------------------------- C11
\* C11: every line that WordWrapper::next_line emits reports a display width
\* of at most max_line_width, whatever the graphemes (0, 1 or 2 columns,
\* whitespace or not), the max_line_width > 0 and the trim setting.
C11_WrappedWidth ==
    Wrapping => \A i \in Emitted : lines[i].width <= max_line_width

\* --------------------------------------------------------------------- C12
\* C12: every line that LineTruncator::next_line emits reports a display
\* width of at most max_line_width, whatever the input, the alignment and the
\* horizontal offset; and a line of 65 graphemes of one column, truncated at
\* width 20 without an offset, yields its first 20 graphemes as one line and
\* nothing else.
C12_TruncatedWidth ==
    Truncating =>
        /\ \A i \in Emitted : lines[i].width <= max_line_width
        /\ (text = <<InputLine(Word(65), "Left")>> /\ max_line_width = 20) =>
              /\ \A i \in 1..Len(lines) :
                    (i = 1 /\ lines[i].offset = 0) =>
                        lines[i] = WrappedLine(SubSeq(Word(65), 1, 20), 20, "Left", 1, 0)
              /\ \A i \in 2..Len(lines) : ~lines[i].some

\* a line cut where a grapheme of two columns no longer fits, under an offset
C12_Witness ==
    /\ Truncating
    /\ \E i \in Emitted :
          LET given == text[lines[i].source].line_symbols
              taken == Len(lines[i].line)
          IN  /\ lines[i].offset > 0
              /\ lines[i].width = max_line_width - 1
              /\ taken < Len(given)
              /\ given[taken + 1].width = 2
              /\ max_line_width >= 2

\* the 65 letters, truncated at width 20, and the truncator has run dry
C12_SixtyFive ==
    /\ Truncating
    /\ text = <<InputLine(Word(65), "Left")>>
    /\ Dry(lines)
    /\ lines[1].some /\ lines[1].offset = 0

\* --------------------------------------------------------------------- C13
\* C13: with max_line_width == 0, next_line of WordWrapper and of
\* LineTruncator returns no line, on the first call and on every later call,
\* whatever the input lines are.
C13_ZeroWidth ==
    (which # "none" /\ max_line_width = 0) =>
        \A i \in 1..Len(lines) : ~lines[i].some

\* a LineTruncator of width 0 over lines that have graphemes, called twice
C13_Witness ==
    /\ Truncating
    /\ max_line_width = 0
    /\ Len(lines) >= 2
    /\ \E n \in 1..Len(text) : text[n].line_symbols # <<>>

\* the same of a WordWrapper
C13_Wrapping ==
    /\ Wrapping
    /\ max_line_width = 0
    /\ Len(lines) >= 2
    /\ \E n \in 1..Len(text) : text[n].line_symbols # <<>>

\* --------------------------------------------------------------------- C14
\* the lines of pass 1 are all of width at most max_line_width
Fits == \A i \in 1..Len(first) : first[i].width <= max_line_width

\* the second WordWrapper has run dry
Rewrapped == Wrapping /\ pass = 2 /\ Dry(lines)

\* C14: word wrapping is idempotent: the lines a WordWrapper emitted (each of
\* width at most max_line_width), fed to a WordWrapper with the same
\* max_line_width and the same trim, are emitted again exactly as they are,
\* for trim = true and for trim = false.
C14_Idempotent ==
    (Rewrapped /\ Fits) => emitted(lines) = emitted(first)

\* a line that holds graphemes, all of them whitespace
Blank(line) == line # <<>> /\ \A k \in 1..Len(line) : line[k].whitespace

\* C14, amended: the same, provided none of the emitted lines is made of
\* whitespace only.
C14_IdempotentButBlank ==
    (Rewrapped /\ Fits /\ \A i \in 1..Len(first) : ~Blank(first[i].line))
        => emitted(lines) = emitted(first)

\* an input line with whitespace that was wrapped into two lines or more,
\* none of them blank, and wrapped again, without trimming
C14_Witness ==
    /\ Rewrapped /\ Fits /\ ~trim
    /\ \A i \in 1..Len(first) : ~Blank(first[i].line)
    /\ \E i, j \in 1..Len(first) :
          /\ i < j /\ first[i].some /\ first[j].some
          /\ first[i].source = first[j].source
          /\ \E k \in 1..Len(first[j].line) : first[j].line[k].whitespace
          /\ first[j].line[1].whitespace

\* --------------------------------------------------------------------- C15
\* the input lines the WordWrapper has emitted all the lines of
Done == IF wrapped_lines = <<>> THEN consumed ELSE consumed - 1

\* C15: with max_line_width > 0, WordWrapper emits at least one line for
\* every input line, in input order, and an input line without graphemes
\* yields exactly one empty line; so it never emits fewer lines than it was
\* given and never collapses blank lines.
C15_LinePerLine ==
    (Wrapping /\ max_line_width > 0) =>
        /\ \A i, j \in Emitted : i < j => lines[i].source <= lines[j].source
        /\ \A n \in 1..consumed : LinesOf(lines, n) # <<>>
        /\ \A n \in 1..Done :
              text[n].line_symbols = <<>> => LinesOf(lines, n) = << <<>> >>
        /\ Dry(lines) => /\ consumed = Len(text)
                         /\ Cardinality(Emitted) >= Len(text)

\* three input lines, the second without graphemes, wrapped to the end
C15_Witness ==
    /\ Wrapping /\ max_line_width > 0 /\ pass = 1
    /\ Dry(lines)
    /\ Len(text) = 3
    /\ text[1].line_symbols # <<>>
    /\ text[2].line_symbols = <<>>
    /\ text[3].line_symbols # <<>>

\* --------------------------------------------------------------------- C16
\* the graphemes of input line n that fit in a line at all
Placeable(n) ==
    LET Narrow(grapheme) == grapheme.width <= max_line_width
    IN  SelectSeq(text[n].line_symbols, Narrow)

NoWhitespace(line) == \A k \in 1..Len(line) : ~line[k].whitespace
Visible(grapheme) == ~grapheme.whitespace

\* input line n is one word that is wider than max_line_width
LongWord(n) ==
    /\ NoWhitespace(text[n].line_symbols)
    /\ line_width(text[n].line_symbols) > max_line_width

\* the lines of a word cut at the width limit: none is wider than it
CutAtLimit(ls) == \A i \in 1..Len(ls) : line_width(ls[i]) <= max_line_width

\* all the lines but the last are as wide as max_line_width
FullButLast(ls) == \A i \in 1..(Len(ls) - 1) : line_width(ls[i]) = max_line_width

\* C16: of an input line that is one word wider than max_line_width,
\* WordWrapper drops and reorders nothing (the emitted lines, one after the
\* other, are the word) and cuts the word at the width limit, so that with
\* graphemes of one column every emitted line but the last is max_line_width
\* wide; and WordWrapper never drops a non-whitespace grapheme whose width is
\* at most max_line_width.
C16_WordKept ==
    (Wrapping /\ max_line_width > 0) =>
        \A n \in 1..Done :
            /\ LongWord(n) =>
                  /\ Concat(LinesOf(lines, n)) = Placeable(n)
                  /\ CutAtLimit(LinesOf(lines, n))
                  /\ (\A k \in 1..Len(text[n].line_symbols) :
                          text[n].line_symbols[k].width = 1)
                       => FullButLast(LinesOf(lines, n))
            /\ SelectSeq(Concat(LinesOf(lines, n)), Visible)
                   = SelectSeq(Placeable(n), Visible)

\* --------------------------------------------------------------------- C17
\* C17: with trim = false, WordWrapper preserves whitespace verbatim: every
\* whitespace grapheme of an input line is in the emitted lines, in order, so
\* the emitted lines of an input line, one after the other, are that input
\* line (graphemes wider than max_line_width aside).
C17_Verbatim ==
    (Wrapping /\ ~trim /\ max_line_width > 0) =>
        \A n \in 1..Done : Concat(LinesOf(lines, n)) = Placeable(n)

\* line is whole[a..b] for some a and b
IsSlice(line, whole) ==
    \E a \in 1..(Len(whole) + 1) : \E b \in (a - 1)..Len(whole) :
        line = SubSeq(whole, a, b)

\* C17, amended: with trim = false every emitted line is a slice of its input
\* line (graphemes wider than max_line_width aside), no non-whitespace
\* grapheme is left out, and an input line that is narrower than
\* max_line_width and not made of whitespace only is emitted as it is.
C17_VerbatimSlices ==
    (Wrapping /\ ~trim /\ max_line_width > 0) =>
        \A n \in 1..Done :
            /\ \A i \in 1..Len(LinesOf(lines, n)) :
                  IsSlice(LinesOf(lines, n)[i], Placeable(n))
            /\ SelectSeq(Concat(LinesOf(lines, n)), Visible)
                   = SelectSeq(Placeable(n), Visible)
            /\ (line_width(Placeable(n)) < max_line_width /\ ~Blank(Placeable(n)))
                   => LinesOf(lines, n) = <<Placeable(n)>>

\* an input line wrapped into lines without trimming: a later line keeps the
\* whitespace before its word and whitespace was lost at a break
C17_Witness ==
    /\ Wrapping /\ ~trim /\ max_line_width > 0 /\ pass = 1
    /\ Done >= 1
    /\ \E j \in 2..Len(LinesOf(lines, 1)) :
          /\ LinesOf(lines, 1)[j] # <<>>
          /\ LinesOf(lines, 1)[j][1].whitespace
          /\ ~Blank(LinesOf(lines, 1)[j])
    /\ Concat(LinesOf(lines, 1)) # Placeable(1)

\* --------------------------------------------------------------------- C18
\* C18: with trim = true no line that WordWrapper emits starts with a
\* whitespace grapheme (whitespace only joins a line that holds a
\* non-whitespace grapheme), and an input line made of whitespace only
\* yields exactly one empty line.
C18_Trimmed ==
    (Wrapping /\ trim /\ max_line_width > 0) =>
        /\ \A i \in Emitted : lines[i].line # <<>> => ~lines[i].line[1].whitespace
        /\ \A n \in 1..Done :
              Blank(text[n].line_symbols) => LinesOf(lines, n) = << <<>> >>

\* an input line that starts with whitespace, trimmed: a line was emitted
\* that holds whitespace after its first word
C18_Witness ==
    /\ Wrapping /\ trim /\ max_line_width > 0 /\ pass = 1
    /\ Done >= 1
    /\ text[1].line_symbols # <<>> /\ text[1].line_symbols[1].whitespace
    /\ text[1].line_symbols[1].width > 0
    /\ \E i \in Emitted : \E k \in 2..Len(lines[i].line) : lines[i].line[k].whitespace

\* an input line of whitespace wider than max_line_width, trimmed
C18_BlankLine ==
    /\ Wrapping /\ trim /\ max_line_width > 0 /\ pass = 1
    /\ Done >= 1
    /\ Blank(text[1].line_symbols)
    /\ line_width(Placeable(1)) > max_line_width

\* --------------------------------------------------------------------- C19
\* the input lines a composer is done with
Finished == IF Wrapping THEN Done ELSE consumed

\* grapheme k of input line n follows grapheme k - 1 in the line that holds
\* grapheme k - 1, if a line does
Attached(n, k) ==
    LET before == text[n].line_symbols[k - 1]
        grapheme == text[n].line_symbols[k]
        ls == LinesOf(lines, n)
    IN  \A i \in 1..Len(ls) : \A j \in 1..Len(ls[i]) :
            ls[i][j] = before => (j < Len(ls[i]) /\ ls[i][j + 1] = grapheme)

Composed(line_symbols, alignment, offset) ==
    IF Wrapping THEN process_input(line_symbols, max_line_width, trim)
    ELSE <<truncate_graphemes(truncate_start(offset), line_symbols, alignment,
                              max_line_width).current_line>>

\* the horizontal_offset under which input line n was composed
OffsetOf(n) ==
    LET i == CHOOSE i \in Emitted : lines[i].source = n IN lines[i].offset

\* C20: neither composer emits a grapheme that is wider than max_line_width:
\* it skips such a grapheme and goes on with the line as if it were not
\* there, and an input line of such graphemes only yields one empty line.
C20_TooWideSkipped ==
    (which # "none" /\ max_line_width > 0) =>
        /\ \A i \in Emitted : \A k \in 1..Len(lines[i].line) :
              lines[i].line[k].width <= max_line_width
        /\ \A n \in 1..Finished :
              /\ LinesOf(lines, n)
                    = Composed(Placeable(n), text[n].alignment, OffsetOf(n))
              /\ Placeable(n) = <<>> => LinesOf(lines, n) = << <<>> >>

\* an input line with a grapheme too wide for the line between graphemes
\* that were emitted
C20_Witness ==
    /\ which # "none" /\ max_line_width > 0 /\ pass = 1
    /\ Finished >= 1
    /\ \E k \in 2..(Len(text[1].line_symbols) - 1) :
          /\ text[1].line_symbols[k].width > max_line_width
          /\ \E i, j \in Emitted :
                /\ \E a \in 1..Len(lines[i].line) :
                      lines[i].line[a] = text[1].line_symbols[k - 1]
                /\ \E b \in 1..Len(lines[j].line) :
                      lines[j].line[b] = text[1].line_symbols[k + 1]

\* an input line of graphemes that are all too wide
C20_OnlyTooWide ==
    /\ which # "none" /\ max_line_width > 0 /\ pass = 1
    /\ Finished >= 1
    /\ text[1].line_symbols # <<>>
    /\ Placeable(1) = <<>>

\* ===================================================== claims C21..C30
\* a grapheme of the input, not the "" that stands for a skipped one
Shown(grapheme) == grapheme # EmptySymbol

\* --------------------------------------------------------------------- C21
\* C21: with max_line_width > 0, LineTruncator emits exactly one line per
\* input line, in order: the i-th call of next_line returns a line made of
\* input line i while there is one, a run of adjacent graphemes of that line
\* (graphemes wider than max_line_width aside) and nothing of another line,
\* and returns no line exactly when the input lines are exhausted; so a
\* truncator that has run dry has emitted as many lines as the input has.
C21_LinePerInputLine ==
    (Truncating /\ max_line_width > 0) =>
        /\ \A i \in 1..Len(lines) :
              /\ lines[i].some <=> i <= Len(text)
              /\ lines[i].some =>
                    /\ lines[i].source = i
                    /\ IsSlice(SelectSeq(lines[i].line, Shown), Placeable(i))
        /\ consumed = Cardinality(Emitted)
        /\ Dry(lines) => Cardinality(Emitted) = Len(text)

\* three input lines, the first cut short by a grapheme that did not fit
\* before a narrower one, truncated to the end
C21_Witness ==
    /\ Truncating /\ max_line_width > 0
    /\ Dry(lines)
    /\ \E n \in 1..Len(text) :
          LET given == text[n].line_symbols
              taken == Len(lines[n].line)
          IN  /\ lines[n].line # <<>>
              /\ taken + 1 < Len(given)
              /\ given[taken + 1].width = 2
              /\ given[taken + 2].width = 1
              /\ lines[n].width = max_line_width - 1

\* three input lines truncated to the end
C21_ThreeLines ==
    /\ Truncating /\ max_line_width > 0
    /\ Dry(lines)
    /\ Len(text) = 3
    /\ Cardinality(Emitted) = 3

\* --------------------------------------------------------------------- C22
\* the flex applies the spacing between two segments or more
Spaced == N_ >= 2 /\ Layout_.flex \notin {"SpaceAround", "SpaceBetween"}

\* every constraint is a Fixed, Min, Max or Length
AllSized == \A i \in 1..N_ : Layout_.constraints[i].kind \in {"Fixed", "Min", "Max", "Length"}

\* the room the constraints need at least: the sizes of Fixed, Length and Min
RECURSIVE Needed(_)
Needed(i) ==
    IF i = 0 THEN 0
    ELSE (IF Layout_.constraints[i].kind = "Max" THEN 0 ELSE Layout_.constraints[i].a)
         + Needed(i - 1)

\* segment i has the size its constraint asks for
Asked(i) ==
    LET c == Layout_.constraints[i]
        got == Size(returned.segments[i])
    IN  CASE c.kind \in {"Fixed", "Length"} -> got = c.a
          [] c.kind = "Min" -> got >= c.a
          [] c.kind = "Max" -> got <= c.a
          [] OTHER -> TRUE

\* the area holds the constrained sizes but not the spacing as well
Short == Needed(N_) <= Width_ /\ Needed(N_) + Gaps > Width_

\* C22 as stated: requested spacing has lower priority than the per-item
\* constraints: when the area cannot hold both the requested spacing and the
\* sizes asked by Fixed, Min/Max or Length constraints, the segments keep
\* their constrained sizes and the gap between segments shrinks below the
\* requested spacing.
C22_ConstraintsFirst ==
    (SplitWithSpacersReturned /\ Spaced /\ AllSized /\ Short) =>
        /\ \A i \in 1..N_ : Asked(i)
        /\ \E i \in 2..N_ : Size(returned.spacers[i]) < Layout_.spacing

\* C22, amended: requested spacing has higher priority than the per-item
\* constraints: whenever the requested gaps fit in the area, every gap
\* between two segments is exactly the requested spacing, whatever the
\* constraints ask for; when the area cannot hold both, it is a segment that
\* shrinks below its constrained size.
C22_SpacingFirst ==
    (SplitWithSpacersReturned /\ Spaced /\ Gaps <= Width_) =>
        /\ \A i \in 2..N_ : Size(returned.spacers[i]) = Layout_.spacing
        /\ (AllSized /\ Short) => \E i \in 1..N_ : ~Asked(i)

\* two Fixed(1) in an area of 2 with a spacing of 1: the gap is 1 and the
\* second segment is empty
C22_Witness ==
    /\ SplitWithSpacersReturned
    /\ Layout_.constraints = <<Fixed(1), Fixed(1)>> /\ Width_ = 2
    /\ Layout_.flex = "Start" /\ Layout_.spacing = 1
    /\ Size(returned.spacers[2]) = 1
    /\ Size(returned.segments[1]) + Size(returned.segments[2]) = 1

\* --------------------------------------------------------------------- C23
\* a split by a layout of the default flex returned
StretchLastReturned ==
    /\ SplitReturned \/ SplitWithSpacersReturned
    /\ Layout_.flex = "StretchLast"
    /\ N_ >= 1

\* the room the constraints ask for: the sizes of Fixed, Length, Min and Max
RECURSIVE AskedSum(_)
AskedSum(i) == IF i = 0 THEN 0 ELSE Layout_.constraints[i].a + AskedSum(i - 1)

\* the constraints and the spacing leave space of the area unused
Unused == AllSized /\ AskedSum(N_) + Gaps < Width_

\* C23: with the default flex (StretchLast), whenever the constraints leave
\* space unused, the last segment of the layout is expanded to fill the
\* remaining space and every earlier segment keeps the size its constraint
\* asks for.
C23_LastStretched ==
    (StretchLastReturned /\ Unused) =>
        /\ \A i \in 1..(N_ - 1) : Asked(i)
        /\ Size(returned.segments[N_])
              = Width_ - Gaps - SumSizes(returned.segments, N_ - 1)
        /\ Size(returned.segments[N_]) > Layout_.constraints[N_].a

\* --------------------------------------------------------------------- C24
\* the layout of the last call with another spacing
Respaced(spacing) == [Layout_ EXCEPT !.spacing = spacing]

\* the layout has one constraint, or a flex that spaces the segments itself
Unspaced == N_ = 1 \/ Layout_.flex \in {"SpaceAround", "SpaceBetween"}

\* C24: spacing is not applied when the layout has a single constraint or
\* when the flex is SpaceAround or SpaceBetween: split_with_spacers returns
\* the same segments and spacers for every spacing value (what it returned
\* is what try_split yields for the layout with any other spacing).
C24_SpacingIgnored ==
    (SplitWithSpacersReturned /\ Unspaced) =>
        \A spacing \in (0..MaxSpacing) \ {Layout_.spacing} :
            [segments |-> returned.segments, spacers |-> returned.spacers]
                \in try_split(Respaced(spacing), Area_)

\* one Length(1) with a spacing of 1 under a flex that applies spacing: the
\* segment is all of the area of 2 and both spacers are empty
C24_Witness ==
    /\ SplitWithSpacersReturned
    /\ Layout_.constraints = <<Length(1)>> /\ Layout_.flex = "Stretch"
    /\ Layout_.spacing = 1 /\ Width_ = 2
    /\ Size(returned.segments[1]) = 2
    /\ Size(returned.spacers[1]) = 0 /\ Size(returned.spacers[2]) = 0

\* two segments under SpaceBetween with a spacing of 1: the spacer between
\* them is not the spacing
C24_SpaceBetween ==
    /\ SplitWithSpacersReturned
    /\ N_ = 2 /\ Layout_.flex = "SpaceBetween"
    /\ Layout_.spacing = 1
    /\ Size(returned.spacers[2]) # 1

\* --------------------------------------------------------------------- C25
\* the inner call of a block without padding
Unpadded == inner_call.called /\ inner_call.self.padding = Padding(0, 0, 0, 0)

\* 1 when the side of the block is occupied, by a border or by a title
Occupied(side) ==
    IF \/ side \in inner_call.self.borders
       \/ side = "TOP" /\ inner_call.self.top_titles > 0
       \/ side = "BOTTOM" /\ inner_call.self.bottom_titles > 0
    THEN 1 ELSE 0

\* rect is inside area
Contained(rect, area) ==
    /\ rect.x >= area.x /\ rect.y >= area.y
    /\ right(rect) <= right(area) /\ bottom(rect) <= bottom(area)
    /\ rect.width <= area.width /\ rect.height <= area.height

\* C25: Block::inner(area) with zero padding removes one cell per occupied
\* side, saturating at zero: the width shrinks by 1 for each of the LEFT and
\* RIGHT borders, the height by 1 when the top has a border or a top title
\* and by 1 when the bottom has a border or a bottom title (both on one side
\* count once); x advances by 1 for LEFT and y by 1 for the top, but never
\* beyond area.right() / area.bottom(); so the result is always contained in
\* area, also for areas of width or height 0.
C25_InnerContained ==
    Unpadded =>
        LET area == inner_call.area
            got == inner_call.inner
        IN  /\ got.width = saturating_sub(area.width, Occupied("LEFT") + Occupied("RIGHT"))
            /\ got.height = saturating_sub(area.height, Occupied("TOP") + Occupied("BOTTOM"))
            /\ got.x = MinInt(area.x + Occupied("LEFT"), right(area))
            /\ got.y = MinInt(area.y + Occupied("TOP"), bottom(area))
            /\ Contained(got, area)

\* a block with a left and a top border and a top title, asked for the inner
\* area of an empty area: x and y stay
C25_Witness ==
    /\ Unpadded
    /\ inner_call.self.borders = {"LEFT", "TOP"} /\ inner_call.self.top_titles = 1
    /\ inner_call.area = Rect(0, 0, 0, 0)
    /\ inner_call.inner = Rect(0, 0, 0, 0)

\* inner_takes_into_account_border_and_title: a bottom title and a top
\* border in an area of height 2
C25_BorderAndTitle ==
    /\ Unpadded
    /\ inner_call.self.borders = {"TOP"} /\ inner_call.self.top_titles = 0 /\ inner_call.self.bottom_titles = 1
    /\ inner_call.area = Rect(0, 0, 0, 2)
    /\ inner_call.inner = Rect(0, 1, 0, 0)

\* --------------------------------------------------------------------- C26
\* a constraint of the last call is a Ratio with the denominator 0
ZeroDenominator(i) ==
    Layout_.constraints[i].kind = "Ratio" /\ Layout_.constraints[i].b = 0

\* the layout of the last call with 1 for every denominator that is 0
Floored ==
    [Layout_ EXCEPT !.constraints =
        [i \in 1..N_ |-> IF ZeroDenominator(i) THEN Ratio(Layout_.constraints[i].a, 1)
                         ELSE Layout_.constraints[i]]]

\* C26: a Ratio constraint with denominator 0 is never rejected and never
\* faults: the split returns, and Ratio(num, 0) yields the same split as
\* Ratio(num, 1), for every num, area and surrounding constraints.
C26_ZeroDenominator ==
    ((SplitReturned \/ SplitWithSpacersReturned) /\ \E i \in 1..N_ : ZeroDenominator(i)) =>
        /\ returned.ok /\ ~returned.panic
        /\ Len(returned.segments) = N_
        /\ \E value \in try_split(Floored, Area_) :
              /\ value.segments = returned.segments
              /\ SplitWithSpacersReturned => value.spacers = returned.spacers

\* Ratio(2, 0) beside a Length(1) in an area of 2: as Ratio(2, 1) it asks
\* for more than the area, and the Length keeps its cell
C26_Witness ==
    /\ SplitWithSpacersReturned
    /\ Layout_.constraints = <<Length(1), Ratio(2, 0)>> /\ Width_ = 2
    /\ Size(returned.segments[1]) = 1 /\ Size(returned.segments[2]) = 1

\* Ratio(1, 0) alone takes the whole area, as Ratio(1, 1)
C26_Alone ==
    /\ SplitReturned
    /\ Layout_.constraints = <<Ratio(1, 0)>> /\ Width_ = 2
    /\ Size(returned.segments[1]) = 2

\* --------------------------------------------------------------------- C27
\* strength a is higher than strength b
Stronger(a, b) == a.hi > b.hi \/ (a.hi = b.hi /\ a.lo > b.lo)

\* the classes of the constraints try_split gives to the solver
Classes == {"spacer", "fixed", "bound", "bound_eq", "length", "percentage", "ratio", "grow"}

\* the class of the k-th constraint of the arm of constraint i
ArmClass(i, k) ==
    LET kind == Layout_.constraints[i].kind
    IN  CASE kind = "Fixed" -> "fixed"
          [] kind \in {"Min", "Max"} -> IF k = 1 THEN "bound" ELSE "bound_eq"
          [] kind = "Length" -> "length"
          [] kind = "Percentage" -> "percentage"
          [] kind = "Ratio" -> "ratio"
          [] kind = "Proportional" -> "grow"

\* the class of a constraint of configure_flex_constraints: it makes an
\* element as large as the area or the segments as large as each other
\* (grow), or it sets the size of a spacer
FlexClass(c) ==
    IF c.rhs = area_size_of(N_) \/ \E i \in 1..N_ : c.lhs = segments_of(N_)[i]
    THEN "grow" ELSE "spacer"

\* the (class, strength) of every constraint the last split gave the solver
Given ==
    LET flex == configure_flex_constraints(area_size_of(N_), spacers_of(N_),
                                           segments_of(N_), Layout_.flex, Layout_.spacing)
        scaled == configure_proportional_constraints(segments_of(N_), Layout_.constraints)
        Arm(i) == constraint_arm(Layout_.constraints[i], segments_of(N_)[i],
                                 area_size_of(N_), Width_)
    IN  {<<FlexClass(flex[k]), flex[k].strength>> : k \in 1..Len(flex)}
        \cup {<<"spacer", scaled[k].strength>> : k \in 1..Len(scaled)}
        \cup UNION {{<<ArmClass(i, k), Arm(i)[k].strength>> : k \in 1..Len(Arm(i))} :
                    i \in 1..N_}

\* the constraints given to the solver are ordered as the ranks of their
\* classes are: a class of a higher rank has the higher strength
Ordered(rank) ==
    \A g, h \in Given : rank[g[1]] > rank[h[1]] => Stronger(g[2], h[2])

\* C27 as stated: the strengths given to the solver are strictly ordered,
\* from highest to lowest: spacer equality and proportional-scaling equality
\* > Fixed equality > Min/Max inequality bound > Min/Max exact-equality
\* fallback > Length equality > Percentage equality > Ratio equality >
\* proportional and other grow terms.
C27_OrderAsStated ==
    (SplitReturned \/ SplitWithSpacersReturned) =>
        Ordered([class \in Classes |->
                    CASE class = "spacer" -> 8
                      [] class = "fixed" -> 7
                      [] class = "bound" -> 6
                      [] class = "bound_eq" -> 5
                      [] class = "length" -> 4
                      [] class = "percentage" -> 3
                      [] class = "ratio" -> 2
                      [] class = "grow" -> 1])

\* C27, amended: the strengths given to the solver are strictly ordered,
\* from highest to lowest: spacer equality and proportional-scaling equality
\* > Fixed equality > Min/Max inequality bound > Length equality >
\* Percentage equality > Ratio equality > Min/Max exact-equality fallback >
\* proportional and other grow terms.
C27_Order ==
    (SplitReturned \/ SplitWithSpacersReturned) =>
        Ordered([class \in Classes |->
                    CASE class = "spacer" -> 8
                      [] class = "fixed" -> 7
                      [] class = "bound" -> 6
                      [] class = "length" -> 5
                      [] class = "percentage" -> 4
                      [] class = "ratio" -> 3
                      [] class = "bound_eq" -> 2
                      [] class = "grow" -> 1])

\* Length(1) before Min(0) in an area of 2: the Length keeps its cell and
\* the Min, whose equality is the weaker one, takes the rest
C27_Witness ==
    /\ SplitReturned
    /\ Layout_ = horizontal(<<Length(1), Min(0)>>) /\ Width_ = 2
    /\ Size(returned.segments[1]) = 1 /\ Size(returned.segments[2]) = 1

\* --------------------------------------------------------------------- C28
\* the line the i-th next_line call was given, without the graphemes too
\* wide for a line, and the display columns of its first k graphemes
Given28(i) == Placeable(lines[i].source)
Columns(i, k) == line_width(SubSeq(Given28(i), 1, k))

\* grapheme k of that line covers one of the first `offset` display columns
Covering(i, k) ==
    /\ Given28(i)[k].width > 0
    /\ Columns(i, k - 1) < lines[i].offset

\* the line a truncator without an offset makes of the graphemes given
Truncated(line_symbols, alignment) ==
    truncate_graphemes(truncate_start(0), line_symbols, alignment,
                       max_line_width).current_line

LeftAligned(i) == text[lines[i].source].alignment = "Left"

\* C28: LineTruncator applies the horizontal offset only to left-aligned
\* lines: of a Center- or Right-aligned input line the emitted graphemes and
\* width are the same for every offset; of a Left-aligned line the leading
\* graphemes that cover the first `offset` display columns contribute no
\* visible symbol and no width; the offset is applied afresh, with its full
\* value, to every input line (each line is judged by the offset of its own
\* call).
C28_OffsetLeftOnly ==
    (Truncating /\ max_line_width > 0) =>
        \A i \in Emitted :
            /\ ~LeftAligned(i) =>
                  /\ lines[i].line = Truncated(Given28(i), text[lines[i].source].alignment)
                  /\ lines[i].width = line_width(lines[i].line)
            /\ LeftAligned(i) =>
                  /\ \A k \in 1..Len(Given28(i)) :
                        Covering(i, k) =>
                            \A j \in 1..Len(lines[i].line) :
                                lines[i].line[j] # Given28(i)[k]
                  /\ lines[i].width = line_width(SelectSeq(lines[i].line, Shown))

\* --------------------------------------------------------------------- C29
\* the lines emitted so far that came from input line n
From(n) == {i \in Emitted : lines[i].source = n}

\* C29: every line emitted by WordWrapper or LineTruncator carries the
\* alignment of the input line it was produced from: all the lines wrapped
\* from one input line share that line's alignment, and the alignment of one
\* input line never leaks into the lines of the next.
C29_AlignmentKept ==
    /\ \A i \in Emitted :
          /\ lines[i].source \in 1..Len(text)
          /\ lines[i].alignment = text[lines[i].source].alignment
    /\ \A i \in Emitted, j \in Emitted :
          i < j => lines[i].source <= lines[j].source

\* line_composer_preserves_line_alignment, the WordWrapper: seven lines,
\* Left, Left, Right, Right, Right, Center, Center
C29_Witness ==
    /\ Wrapping /\ pass = 1
    /\ text = AlignedLines
    /\ max_line_width = 1
    /\ Len(lines) >= 7
    /\ [i \in 1..7 |-> lines[i].alignment]
           = <<"Left", "Left", "Right", "Right", "Right", "Center", "Center">>
    /\ \A i \in 1..7 : lines[i].some
    /\ Cardinality(From(2)) = 3

\* the same text through the LineTruncator: Left, Right, Center
C29_Truncated ==
    /\ Truncating
    /\ text = AlignedLines
    /\ max_line_width = 1
    /\ Len(lines) >= 3
    /\ [i \in 1..3 |-> lines[i].alignment] = <<"Left", "Right", "Center">>
    /\ \A i \in 1..3 : lines[i].some

\* --------------------------------------------------------------------- C30
\* the text is one line: a grapheme that is no whitespace, then whitespace of
\* one column each, more columns of it than max_line_width
CharPlusSpaces ==
    /\ Len(text) = 1
    /\ Len(text[1].line_symbols) - 1 > max_line_width
    /\ ~text[1].line_symbols[1].whitespace
    /\ \A k \in 2..Len(text[1].line_symbols) :
          text[1].line_symbols[k].whitespace /\ text[1].line_symbols[k].width = 1

\* the first grapheme takes columns, and no more than a line has
FirstFits ==
    text[1].line_symbols[1].width \in 1..max_line_width

\* the WordWrapper with trim = true has emitted all it has for the text
TrimmedDry == Wrapping /\ trim /\ pass = 1 /\ max_line_width > 0 /\ Dry(lines)

\* the grapheme alone, then an empty line
CharThenEmpty ==
    LinesOf(lines, 1) = << <<text[1].line_symbols[1]>>, <<>> >>

\* C30, as stated: WordWrapper with trim = true, given an input line made of
\* one non-whitespace grapheme followed only by width-1 whitespace totalling
\* more than max_line_width columns, emits exactly two lines: the grapheme
\* alone, then an empty line.
C30_CharThenEmptyAnyChar ==
    (TrimmedDry /\ CharPlusSpaces) => CharThenEmpty

\* C30, amended: the same for a first grapheme that is 1 to max_line_width
\* columns wide.
C30_CharThenEmpty ==
    (TrimmedDry /\ CharPlusSpaces /\ FirstFits) => CharThenEmpty

\* line_composer_char_plus_lots_of_spaces: ["a", ""]
C30_Witness ==
    /\ TrimmedDry
    /\ text = LotsOfSpaces.text /\ max_line_width = 20
    /\ CharPlusSpaces /\ FirstFits
    /\ Len(lines) >= 3
    /\ lines[1].some /\ lines[1].line = <<StyledGrapheme(1, 1, FALSE)>>
    /\ lines[2].some /\ lines[2].line = <<>>
    /\ ~lines[3].some

\* a first grapheme of two columns in a line of two, and four spaces
C30_Wide ==
    /\ TrimmedDry /\ CharPlusSpaces
    /\ max_line_width = 2
    /\ text[1].line_symbols[1].width = 2
    /\ Len(text[1].line_symbols) = 5
    /\ CharThenEmpty

\* a first grapheme without columns: one line, the grapheme alone
C30_NoColumns ==
    /\ TrimmedDry /\ CharPlusSpaces
    /\ text[1].line_symbols[1].width = 0
    /\ LinesOf(lines, 1) = << <<text[1].line_symbols[1]>> >>

====
